---- MODULE Spec2Model ----
(***************************************************************************)
(* Fragments microservice: the storage backends (src/model/data/memory,   *)
(* src/model/data/aws, both on top of MemoryDB) and the Fragment model    *)
(* (src/model/fragment.js) as a state machine.                            *)
(***************************************************************************)
EXTENDS Integers, Sequences, FiniteSets, TLC

(***************************************************************************)
(* Universes and bounds                                                    *)
(***************************************************************************)
Owners == {"user1", "user2"}
Ids == {"frag1", "frag2"}
\* the ids crypto.randomUUID() hands out to new fragments, in that order
IdSeq == <<"frag1">>
\* the principals that create fragments; the others only look them up
Creators == {"user1"}
\* the type arguments callers pass to the constructor; image/png is not in
\* the allow-list of isSupportedType
Types == {"text/plain", "image/png"}
Backends == {"memory", "aws"}

\* longest payload, in bytes
MaxLen == 1
\* largest timestamp the clock reaches
MaxClock == 1

Bytes == {7}
Payloads == UNION {[1..n -> Bytes] : n \in 0..MaxLen}
Times == 0..MaxClock

(***************************************************************************)
(* JavaScript values                                                       *)
(***************************************************************************)
\* null / undefined
NULL == [kind |-> "null"]
\* a Buffer holding the bytes b
Buf(b) == [kind |-> "buffer", bytes |-> b]
\* a thrown Error with the given message
Err(m) == [kind |-> "error", message |-> m]
\* a returned boolean
Bool(v) == [kind |-> "bool", value |-> v]
\* a returned object
Obj(o) == [kind |-> "object", object |-> o]
\* a returned array
Arr(a) == [kind |-> "array", items |-> a]

\* the metadata object Fragment.save() builds (no data key)
Meta(o, t, s, c, u) ==
  [ownerId |-> o, type |-> t, size |-> s, created |-> c, updated |-> u]

\* { id, ...fragment }
WithId(id, f) ==
  IF "data" \in DOMAIN f
  THEN [id |-> id, ownerId |-> f.ownerId, type |-> f.type, size |-> f.size,
        created |-> f.created, updated |-> f.updated, data |-> f.data]
  ELSE [id |-> id, ownerId |-> f.ownerId, type |-> f.type, size |-> f.size,
        created |-> f.created, updated |-> f.updated]

\* { ...fragment, data, size: data.length }
WithData(f, d) ==
  [ownerId |-> f.ownerId, type |-> f.type, size |-> Len(d),
   created |-> f.created, updated |-> f.updated, data |-> d]

\* the "ownerId/id" key of the blob store
S3Key(ownerId, id) == <<ownerId, id>>
S3Keys == Owners \X Ids

VARIABLES
  backend,   \* which module src/model/data/index.js selected
  db,        \* MemoryDB.db: id -> stored record, NULL when the key is absent
  order,     \* insertion order of the keys of MemoryDB.db
  s3,        \* the S3 bucket: key -> Buf(bytes), NULL when there is no object
  last,      \* the last call and what it returned or threw
  inst,      \* the Fragment instances held by callers
  clock,     \* what new Date() returns
  issued,    \* how many ids crypto.randomUUID() has handed out
  deleted,   \* the <<ownerId, id>> for which Fragment.delete returned true
  saved,     \* per id, the fragment of the last save() that wrote a payload
  tasks,     \* the asynchronous calls in flight and where each is suspended
  microtasks,\* the calls whose awaited promise has settled, first in first out
  faulted,   \* whether a request to S3 has failed
  twin       \* the other backend module, given the same calls

vars == <<backend, db, order, s3, last, inst, clock, issued, deleted, saved,
          tasks, microtasks, faulted, twin>>
asyncVars == <<tasks, microtasks, faulted>>
storeVars == <<db, order, s3>>
modelVars == <<inst, clock, issued, deleted, saved>>

(***************************************************************************)
(* MemoryDB                                                                *)
(***************************************************************************)
\* this.db.get(id) || null
get(d, id) == d[id]

\* this.db.set(id, fragment): the map after the call
set(d, id, fragment) == [d EXCEPT ![id] = fragment]

\* a Map keeps a key at its first insertion position
setOrder(ord, id) ==
  IF \E i \in 1..Len(ord) : ord[i] = id THEN ord ELSE Append(ord, id)

\* this.db.delete(id): the map after the call
delete(d, id) == [d EXCEPT ![id] = NULL]
deleteOrder(ord, id) == SelectSeq(ord, LAMBDA k : k # id)

\* this.db.has(id)
has(d, id) == d[id] # NULL

\* getByOwner without the ownerId comparison
getByOwner_NoFilter(d, ord, ownerId) ==
  LET keep == SelectSeq(ord, LAMBDA k : d[k] # NULL)
  IN  [i \in 1..Len(keep) |-> WithId(keep[i], d[keep[i]])]

\* getByOwner(ownerId): { id, ...fragment } of the owner, in insertion order
getByOwner(d, ord, ownerId) ==
  LET keep == SelectSeq(ord, LAMBDA k : d[k] # NULL /\ d[k].ownerId = ownerId)
  IN  [i \in 1..Len(keep) |-> WithId(keep[i], d[keep[i]])]

(***************************************************************************)
(* What a backend call leaves behind: its result and the two stores        *)
(***************************************************************************)
Out(res, d, ord, s) == [res |-> res, db |-> d, order |-> ord, s3 |-> s]

(***************************************************************************)
(* Volatile backend, src/model/data/memory/index.js                        *)
(***************************************************************************)
\* readFragment(ownerId, id); src/model/data/aws/index.js:15-32 is the same
\* code over the same MemoryDB
readFragment(d, ownerId, id) ==
  LET fragment == get(d, id)
  IN  IF fragment = NULL THEN NULL
      ELSE IF fragment.ownerId # ownerId THEN NULL
      ELSE Obj(WithId(id, fragment))

\* writeFragment(fragment): unconditional MemoryDB.set of everything but the
\* id; src/model/data/aws/index.js:39-47 is the same code
writeFragment(d, ord, s, id, fragmentData) ==
  Out(Obj(WithId(id, fragmentData)), set(d, id, fragmentData),
      setOrder(ord, id), s)

\* readFragmentData that takes an empty Buffer for no data
readFragmentData_EmptyIsMissing(d, ownerId, id) ==
  LET fragment == get(d, id)
  IN  IF fragment = NULL THEN NULL
      ELSE IF fragment.ownerId # ownerId THEN NULL
      ELSE IF "data" \notin DOMAIN fragment THEN NULL
      ELSE IF Len(fragment.data) = 0 THEN NULL
      ELSE Buf(fragment.data)

\* readFragmentData(ownerId, id) of the volatile backend
readFragmentData(d, ownerId, id) ==
  LET fragment == get(d, id)
  IN  IF fragment = NULL THEN NULL
      ELSE IF fragment.ownerId # ownerId THEN NULL
      ELSE IF "data" \notin DOMAIN fragment THEN NULL
      ELSE Buf(fragment.data)

\* writeFragmentData(ownerId, id, data) of the volatile backend
writeFragmentData(d, ord, s, ownerId, id, data) ==
  LET fragment == get(d, id)
  IN  IF fragment = NULL THEN Out(Err("Fragment not found"), d, ord, s)
      ELSE IF fragment.ownerId # ownerId
           THEN Out(Err("Fragment owner mismatch"), d, ord, s)
      ELSE LET updatedFragment == WithData(fragment, data)
           IN  Out(Obj(WithId(id, updatedFragment)),
                   set(d, id, updatedFragment), setOrder(ord, id), s)

\* listFragments(ownerId): no expand parameter, the full records;
\* src/model/data/aws/index.js:181-188 is the same code
listFragments(d, ord, ownerId) == Arr(getByOwner(d, ord, ownerId))

\* { id, created, updated } of a listed record
basicInfo(fragment) ==
  [id |-> fragment.id, created |-> fragment.created,
   updated |-> fragment.updated]

\* listFragments(ownerId, expand = false): the variant with the projection
listFragmentsExpand(d, ord, ownerId, expand) ==
  LET fragments == getByOwner(d, ord, ownerId)
  IN  IF ~expand
      THEN Arr([i \in 1..Len(fragments) |-> basicInfo(fragments[i])])
      ELSE Arr(fragments)

\* deleteFragment without the ownership check
deleteFragment_AnyOwner(d, ord, s, ownerId, id) ==
  LET fragment == get(d, id)
  IN  IF fragment = NULL THEN Out(Bool(FALSE), d, ord, s)
      ELSE Out(Bool(TRUE), delete(d, id), deleteOrder(ord, id), s)

\* deleteFragment(ownerId, id) of the volatile backend
deleteFragment(d, ord, s, ownerId, id) ==
  LET fragment == get(d, id)
  IN  IF fragment = NULL THEN Out(Bool(FALSE), d, ord, s)
      ELSE IF fragment.ownerId # ownerId THEN Out(Bool(FALSE), d, ord, s)
      ELSE Out(Bool(TRUE), delete(d, id), deleteOrder(ord, id), s)

(***************************************************************************)
(* Durable backend, src/model/data/aws/index.js: metadata in MemoryDB,     *)
(* payloads in S3.  ok says whether the S3 request of the call succeeded.  *)
(***************************************************************************)
\* readFragmentData(ownerId, id): GetObject of ownerId/id, no metadata check
awsReadFragmentData(s, ownerId, id, ok) ==
  IF ~ok THEN Err("unable to read fragment data")
  ELSE s[S3Key(ownerId, id)]

\* writeFragmentData(ownerId, id, data): PutObject first, then the metadata
\* check; the size is returned but not stored
awsWriteFragmentData(d, ord, s, ownerId, id, data, ok) ==
  IF ~ok THEN Out(Err("unable to upload fragment data"), d, ord, s)
  ELSE LET uploaded == [s EXCEPT ![S3Key(ownerId, id)] = Buf(data)]
           fragment == get(d, id)
       IN  IF fragment = NULL
           THEN Out(Err("Fragment not found"), d, ord, uploaded)
           ELSE IF fragment.ownerId # ownerId
                THEN Out(Err("Fragment owner mismatch"), d, ord, uploaded)
           ELSE Out(Obj([WithId(id, fragment) EXCEPT !.size = Len(data)]),
                    d, ord, uploaded)

\* deleteFragment(ownerId, id): DeleteObject (its failure is only logged),
\* then MemoryDB.delete
awsDeleteFragment(d, ord, s, ownerId, id, ok) ==
  LET fragment == get(d, id)
  IN  IF fragment = NULL THEN Out(Bool(FALSE), d, ord, s)
      ELSE IF fragment.ownerId # ownerId THEN Out(Bool(FALSE), d, ord, s)
      ELSE Out(Bool(TRUE), delete(d, id), deleteOrder(ord, id),
               IF ok THEN [s EXCEPT ![S3Key(ownerId, id)] = NULL] ELSE s)

(***************************************************************************)
(* src/model/data/index.js: the backend selected at start-up               *)
(***************************************************************************)
dataReadFragmentData(b, d, s, ownerId, id, ok) ==
  IF b = "aws" THEN awsReadFragmentData(s, ownerId, id, ok)
  ELSE readFragmentData(d, ownerId, id)

dataWriteFragmentData(b, d, ord, s, ownerId, id, data, ok) ==
  IF b = "aws" THEN awsWriteFragmentData(d, ord, s, ownerId, id, data, ok)
  ELSE writeFragmentData(d, ord, s, ownerId, id, data)

dataDeleteFragment(b, d, ord, s, ownerId, id, ok) ==
  IF b = "aws" THEN awsDeleteFragment(d, ord, s, ownerId, id, ok)
  ELSE deleteFragment(d, ord, s, ownerId, id)

\* data.listFragments(ownerId, expand) as Fragment.byUser calls it: the
\* exported listFragments declares one parameter, the second is dropped
dataListFragments(d, ord, ownerId, expand) == listFragments(d, ord, ownerId)

\* the outcomes of the S3 request a call makes: the volatile backend makes none
S3Outcomes(b) == IF b = "aws" THEN BOOLEAN ELSE {TRUE}

(***************************************************************************)
(* State after start-up                                                    *)
(***************************************************************************)
Insts == {"a", "b"}
NoInstance == [kind |-> "none"]
\* the calls that can be in flight at a time
Tasks == {"t1", "t2"}
NoTask == [op |-> "none", pc |-> "done"]
NoCall == [op |-> "none"]

Init ==
  /\ backend \in Backends
  /\ db = [id \in Ids |-> NULL]
  /\ order = <<>>
  /\ s3 = [k \in S3Keys |-> NULL]
  /\ last = NoCall
  /\ inst = [i \in Insts |-> NoInstance]
  /\ clock = 0
  /\ issued = 0
  /\ deleted = {}
  /\ saved = [id \in Ids |-> NULL]
  /\ tasks = [t \in Tasks |-> NoTask]
  /\ microtasks = <<>>
  /\ faulted = FALSE
  /\ twin = Out(NULL, [id \in Ids |-> NULL], <<>>, [k \in S3Keys |-> NULL])

(***************************************************************************)
(* Calls of the backend interface (module.exports of the data modules)     *)
(***************************************************************************)
Call(op, ownerId, id, ok, res) ==
  [op |-> op, ownerId |-> ownerId, id |-> id, ok |-> ok, res |-> res]

\* the metadata records callers hand to writeFragment
MetaInputs ==
  {Meta("user1", "text/plain", 0, 0, 0),
   Meta("user1", "text/html", MaxLen, 0, MaxClock),
   Meta("user2", "text/plain", MaxLen, 0, 0)}

Apply(out) ==
  /\ db' = out.db
  /\ order' = out.order
  /\ s3' = out.s3

WriteFragmentCall(id, fragmentData) ==
  /\ LET out == writeFragment(db, order, s3, id, fragmentData)
     IN  /\ Apply(out)
         /\ last' = Call("writeFragment", fragmentData.ownerId, id, TRUE,
                         out.res)
  /\ UNCHANGED <<backend, twin, asyncVars, modelVars>>

WriteFragmentDataCall(ownerId, id, data) ==
  /\ \E ok \in S3Outcomes(backend) :
       LET out == dataWriteFragmentData(backend, db, order, s3,
                                        ownerId, id, data, ok)
       IN  /\ Apply(out)
           /\ last' = Call("writeFragmentData", ownerId, id, ok, out.res)
  /\ UNCHANGED <<backend, twin, asyncVars, modelVars>>

ListFragmentsCall(ownerId) ==
  /\ last' = Call("listFragments", ownerId, "", TRUE,
                  listFragments(db, order, ownerId))
  /\ UNCHANGED <<backend, twin, asyncVars, storeVars, modelVars>>

ListFragmentsExpandCall(ownerId, expand) ==
  /\ backend = "memory"
  /\ last' = Call("listFragmentsExpand", ownerId, "", expand,
                  listFragmentsExpand(db, order, ownerId, expand))
  /\ UNCHANGED <<backend, twin, asyncVars, storeVars, modelVars>>

DeleteFragmentCall(ownerId, id) ==
  /\ \E ok \in S3Outcomes(backend) :
       LET out == dataDeleteFragment(backend, db, order, s3, ownerId, id, ok)
       IN  /\ Apply(out)
           /\ last' = Call("deleteFragment", ownerId, id, ok, out.res)
  /\ UNCHANGED <<backend, twin, asyncVars, modelVars>>

\* readFragment and readFragmentData change nothing and are the operators
\* above; the calls that write, delete or list are recorded in last
StoreNext ==
  \/ \E id \in Ids, f \in MetaInputs : WriteFragmentCall(id, f)
  \/ \E o \in Owners, id \in Ids, d \in Payloads :
       WriteFragmentDataCall(o, id, d)
  \/ \E o \in Owners : ListFragmentsCall(o)
  \/ \E o \in Owners, e \in BOOLEAN : ListFragmentsExpandCall(o, e)
  \/ \E o \in Owners, id \in Ids : DeleteFragmentCall(o, id)

\* callers that use the backend interface directly
StoreSpec == Init /\ [][StoreNext]_vars

(***************************************************************************)
(* Fragment, src/model/fragment.js                                         *)
(***************************************************************************)
\* the fields of a Fragment object; pc is "saving" while its save() is
\* suspended between the metadata write and the payload write
Instance(id, ownerId, type, size, data, created, updated) ==
  [kind |-> "fragment", id |-> id, ownerId |-> ownerId, type |-> type,
   size |-> size, data |-> data, created |-> created, updated |-> updated,
   pc |-> "idle"]

\* the fragmentData object save() hands to writeFragment
fragmentData(f) == Meta(f.ownerId, f.type, f.size, f.created, f.updated)

\* Fragment.byId(ownerId, id): a new Fragment from the metadata, no payload
byId(d, ownerId, id) ==
  LET found == readFragment(d, ownerId, id)
  IN  IF found = NULL THEN NULL
      ELSE Obj(Instance(found.object.id, found.object.ownerId,
                        found.object.type, found.object.size, NULL,
                        found.object.created, found.object.updated))

\* Fragment.byIdData(ownerId, id)
byIdData(b, d, s, ownerId, id, ok) ==
  dataReadFragmentData(b, d, s, ownerId, id, ok)

\* a value that is not a Buffer: a string, a number, a plain object
NotBuffer == [kind |-> "object"]

\* setData that assigns before it looks at its argument
setData_ChecksLast(f, data, now) ==
  IF data.kind # "buffer"
  THEN [res |-> Err("Data must be a Buffer"),
        f |-> [f EXCEPT !.data = data, !.updated = now]]
  ELSE [res |-> NULL,
        f |-> [f EXCEPT !.data = data, !.size = Len(data.bytes),
                        !.updated = now]]

\* setData(data): what it throws (NULL when it returns) and the fragment
\* afterwards
setData(f, data, now) ==
  IF data.kind # "buffer"
  THEN [res |-> Err("Data must be a Buffer"), f |-> f]
  ELSE [res |-> NULL,
        f |-> [f EXCEPT !.data = data, !.size = Len(data.bytes),
                        !.updated = now]]

Live(i) == inst[i] # NoInstance
Idle(i) == Live(i) /\ inst[i].pc = "idle"
\* the variable a caller binds its next Fragment to
Free(i) == ~Live(i) /\ (i = "b" => Live("a"))

\* a constructor that reads the clock for updated before it does for created
New_UpdatedFirst(i, ownerId, type, size, data) ==
  /\ Free(i)
  /\ issued < Len(IdSeq)
  /\ \E u \in {clock, clock + 1} \cap Times :
       /\ inst' = [inst EXCEPT ![i] =
            Instance(IdSeq[issued + 1], ownerId, type, size, data, u, clock)]
       /\ clock' = u
  /\ issued' = issued + 1
  /\ UNCHANGED <<backend, twin, asyncVars, storeVars, last, deleted, saved>>

\* new Fragment({ ownerId, type, size, data }): two reads of the clock
New(i, ownerId, type, size, data) ==
  /\ Free(i)
  /\ issued < Len(IdSeq)
  /\ \E u \in {clock, clock + 1} \cap Times :
       /\ inst' = [inst EXCEPT ![i] =
            Instance(IdSeq[issued + 1], ownerId, type, size, data, clock, u)]
       /\ clock' = u
  /\ issued' = issued + 1
  /\ UNCHANGED <<backend, twin, asyncVars, storeVars, last, deleted, saved>>

ById(i, ownerId, id) ==
  /\ Free(i)
  /\ LET res == byId(db, ownerId, id)
     IN  inst' = IF res = NULL THEN inst ELSE [inst EXCEPT ![i] = res.object]
  /\ UNCHANGED <<backend, twin, asyncVars, storeVars, last, clock, issued, deleted, saved>>

\* the snapshot of a fragment whose save() writes a payload
Snapshot(i, f, done) ==
  [by |-> i, done |-> done, id |-> f.id, ownerId |-> f.ownerId,
   type |-> f.type, created |-> f.created, updated |-> f.updated,
   data |-> f.data.bytes]

\* save() that goes on to the payload write without the metadata write
SaveMeta_BlobFirst(i) ==
  /\ Idle(i)
  /\ inst[i].data # NULL
  /\ inst' = [inst EXCEPT ![i].pc = "saving"]
  /\ saved' = [saved EXCEPT ![inst[i].id] = Snapshot(i, inst[i], FALSE)]
  /\ UNCHANGED <<backend, twin, asyncVars, storeVars, last, clock, issued, deleted>>

\* save(), up to the end of await data.writeFragment(fragmentData); a
\* fragment without data is saved by this step alone
SaveMeta(i) ==
  /\ Idle(i)
  /\ LET f == inst[i]
         out == writeFragment(db, order, s3, f.id, fragmentData(f))
     IN  /\ Apply(out)
         /\ IF f.data # NULL
            THEN /\ inst' = [inst EXCEPT ![i].pc = "saving"]
                 /\ saved' = [saved EXCEPT ![f.id] = Snapshot(i, f, FALSE)]
            ELSE /\ inst' = inst
                 /\ saved' = [saved EXCEPT ![f.id] = NULL]
  /\ UNCHANGED <<backend, twin, asyncVars, last, clock, issued, deleted>>

\* the backend call save() makes for the payload
saveWrite(b, d, ord, s, f, ok) ==
  dataWriteFragmentData(b, d, ord, s, f.ownerId, f.id, f.data.bytes, ok)

\* save(), from await data.writeFragmentData(...) to its return or throw
SaveBlobStep(i, ok) ==
  /\ Live(i)
  /\ inst[i].pc = "saving"
  /\ LET f == inst[i]
         out == saveWrite(backend, db, order, s3, f, ok)
         threw == out.res.kind = "error"
         mine == saved[f.id] # NULL /\ saved[f.id].by = i
     IN  /\ Apply(out)
         /\ inst' = [inst EXCEPT ![i].pc = "idle"]
         /\ saved' = IF threw
                     THEN IF mine THEN [saved EXCEPT ![f.id] = NULL]
                          ELSE saved
                     ELSE IF mine
                          THEN [saved EXCEPT ![f.id].done = TRUE]
                          ELSE [saved EXCEPT ![f.id] = NULL]
  /\ UNCHANGED <<backend, twin, asyncVars, last, clock, issued, deleted>>

SaveBlob(i) == \E ok \in S3Outcomes(backend) : SaveBlobStep(i, ok)

\* fragment.setData(data)
SetData(i, data) ==
  /\ Idle(i)
  /\ inst' = [inst EXCEPT ![i] = setData(inst[i], data, clock).f]
  /\ UNCHANGED <<backend, twin, asyncVars, storeVars, last, clock, issued, deleted, saved>>

\* fragment.setData(data), with what the caller got from it
SetDataCall(i, data) ==
  /\ Idle(i)
  /\ LET r == setData(inst[i], data, clock)
     IN  /\ inst' = [inst EXCEPT ![i] = r.f]
         /\ last' = [op |-> "setData", by |-> i, data |-> data,
                     res |-> r.res]
  /\ UNCHANGED <<backend, twin, asyncVars, storeVars, clock, issued, deleted, saved>>

\* getData that goes to the backend whatever this.data holds
getData_NoCache(b, d, s, f, ok) ==
  LET r == dataReadFragmentData(b, d, s, f.ownerId, f.id, ok)
  IN  IF r.kind = "error"
      THEN [res |-> r, f |-> f, reads |-> <<S3Key(f.ownerId, f.id)>>]
      ELSE [res |-> r, f |-> [f EXCEPT !.data = r],
            reads |-> <<S3Key(f.ownerId, f.id)>>]

\* getData(): what it returns or throws, the fragment afterwards and the
\* readFragmentData calls it made; this.data is assigned when the read
\* returns
getData(b, d, s, f, ok) ==
  IF f.data # NULL THEN [res |-> f.data, f |-> f, reads |-> <<>>]
  ELSE LET r == dataReadFragmentData(b, d, s, f.ownerId, f.id, ok)
       IN  IF r.kind = "error"
           THEN [res |-> r, f |-> f, reads |-> <<S3Key(f.ownerId, f.id)>>]
           ELSE [res |-> r, f |-> [f EXCEPT !.data = r],
                 reads |-> <<S3Key(f.ownerId, f.id)>>]

GetData(i) ==
  /\ Idle(i)
  /\ \E ok \in S3Outcomes(backend) :
       inst' = [inst EXCEPT ![i] = getData(backend, db, s3, inst[i], ok).f]
  /\ UNCHANGED <<backend, twin, asyncVars, storeVars, last, clock, issued, deleted, saved>>

\* Fragment.delete(ownerId, id)
DeleteStep(ownerId, id, ok) ==
  /\ LET out == dataDeleteFragment(backend, db, order, s3, ownerId, id, ok)
     IN  /\ Apply(out)
         /\ deleted' = IF out.res = Bool(TRUE)
                       THEN deleted \cup {<<ownerId, id>>} ELSE deleted
         /\ saved' = IF out.res = Bool(TRUE)
                     THEN [saved EXCEPT ![id] = NULL] ELSE saved
  /\ UNCHANGED <<backend, twin, asyncVars, last, inst, clock, issued>>

Delete(ownerId, id) ==
  \E ok \in S3Outcomes(backend) : DeleteStep(ownerId, id, ok)

\* time passes
Tick ==
  /\ clock < MaxClock
  /\ clock' = clock + 1
  /\ UNCHANGED <<backend, twin, asyncVars, storeVars, last, inst, issued, deleted, saved>>

\* the size and data arguments callers pass to the constructor
SizeArgs == {0, 1}
DataArgs == {NULL} \cup {Buf(d) : d \in Payloads}
\* the ids handed out so far; a delete of any other id finds no record and
\* changes nothing
IssuedIds == {IdSeq[k] : k \in 1..issued}
\* the arguments callers pass to setData
SetDataArgs == {NULL, NotBuffer} \cup {Buf(d) : d \in Payloads}

Next ==
  \/ \E i \in Insts, o \in Creators, t \in Types, sz \in SizeArgs,
        d \in DataArgs : New(i, o, t, sz, d)
  \/ \E i \in Insts, o \in Owners, id \in Ids : ById(i, o, id)
  \/ \E i \in Insts : SaveMeta(i)
  \/ \E i \in Insts : SaveBlob(i)
  \/ \E i \in Insts, d \in Payloads : SetData(i, Buf(d))
  \/ \E i \in Insts : GetData(i)
  \/ \E o \in Owners, id \in IssuedIds : Delete(o, id)
  \/ Tick

\* callers that go through the Fragment class
Spec == Init /\ [][Next]_vars

EntityNext ==
  \/ \E i \in Insts, o \in Creators, t \in Types, sz \in SizeArgs,
        d \in DataArgs : New(i, o, t, sz, d)
  \/ \E i \in Insts, d \in SetDataArgs : SetDataCall(i, d)
  \/ \E i \in Insts : SaveMeta(i)
  \/ \E i \in Insts : SaveBlob(i)
  \/ Tick

\* one caller that builds a fragment, replaces its data and saves it
EntitySpec == Init /\ [][EntityNext]_vars

(***************************************************************************)
(* Route handlers, src/routes/api: one request is one step                 *)
(***************************************************************************)
\* the allow-list of Fragment.isSupportedType
supportedTypes ==
  {"text/plain", "text/html", "text/css", "text/javascript",
   "application/json", "text/markdown", "text/xml", "application/xml"}

\* Fragment.isSupportedType(type): supportedTypes.includes(type)
isSupportedType(type) == type \in supportedTypes

\* contentType.parse(req).type; a missing or malformed header ("") throws
contentTypeParse(header) ==
  IF header = "" THEN Err("invalid media type")
  ELSE [kind |-> "mediatype", type |-> header]

\* fragment.toJSON()
toJSON(f) ==
  [id |-> f.id, ownerId |-> f.ownerId, type |-> f.type, size |-> f.size,
   created |-> f.created, updated |-> f.updated]

\* res.status(code).json(body)
Response(code, body) == [kind |-> "response", status |-> code, body |-> body]
\* createErrorResponse(code, message)
createErrorResponse(code, message) ==
  [status |-> "error", code |-> code, message |-> message]
\* createSuccessResponse({ fragment })
createSuccessResponse(fragment) == [status |-> "ok", fragment |-> fragment]
\* createSuccessResponse({ message })
createSuccessMessage(message) == [status |-> "ok", message |-> message]

\* fragment.save() run to its end: the metadata write, then the payload
\* write when this.data is truthy
save(b, d, ord, s, f, ok) ==
  LET m == writeFragment(d, ord, s, f.id, fragmentData(f))
  IN  IF f.data # NULL
      THEN LET w == dataWriteFragmentData(b, m.db, m.order, m.s3, f.ownerId,
                                          f.id, f.data.bytes, ok)
           IN  IF w.res.kind = "error" THEN w
               ELSE Out(Obj(f), w.db, w.order, w.s3)
      ELSE Out(Obj(f), m.db, m.order, m.s3)

\* fragment.update(data, type): class Fragment defines no such method, the
\* call throws a TypeError
update(f, data, type) == Err("fragment.update is not a function")

\* POST /v1/fragments
postHandler(b, d, ord, s, user, header, body, f, ok) ==
  LET parsed == contentTypeParse(header)
  IN  IF user = ""
      THEN Out(Response(401, createErrorResponse(401,
                 "Authentication required")), d, ord, s)
      ELSE IF parsed.kind = "error"
      THEN Out(Response(415, createErrorResponse(415,
                 "Unsupported Media Type: Content-Type header is missing or invalid")),
               d, ord, s)
      ELSE IF ~isSupportedType(parsed.type)
      THEN Out(Response(415, createErrorResponse(415,
                 "Unsupported content type")), d, ord, s)
      ELSE IF body.kind # "buffer"
      THEN Out(Response(400, createErrorResponse(400,
                 "Invalid request body")), d, ord, s)
      ELSE IF Len(body.bytes) = 0
      THEN Out(Response(400, createErrorResponse(400,
                 "Request body cannot be empty")), d, ord, s)
      ELSE LET out == save(b, d, ord, s, f, ok)
           IN  IF out.res.kind = "error"
               THEN Out(Response(500, createErrorResponse(500,
                          "Internal server error")),
                        out.db, out.order, out.s3)
               ELSE Out(Response(201, createSuccessResponse(toJSON(f))),
                        out.db, out.order, out.s3)

\* PUT /v1/fragments/:id that validates the request before it looks the
\* fragment up
putHandler_ValidatesFirst(b, d, ord, s, user, id, header, body) ==
  LET fragment == byId(d, user, id)
      parsed == contentTypeParse(header)
  IN  IF user = ""
      THEN Out(Response(401, createErrorResponse(401,
                 "Authentication required")), d, ord, s)
      ELSE IF parsed.kind = "error"
      THEN Out(Response(415, createErrorResponse(415,
                 "Unsupported Media Type: Content-Type header is missing or invalid")),
               d, ord, s)
      ELSE IF ~isSupportedType(parsed.type)
      THEN Out(Response(415, createErrorResponse(415,
                 "Unsupported content type")), d, ord, s)
      ELSE IF body.kind # "buffer"
      THEN Out(Response(400, createErrorResponse(400,
                 "Invalid request body")), d, ord, s)
      ELSE IF Len(body.bytes) = 0
      THEN Out(Response(400, createErrorResponse(400,
                 "Request body cannot be empty")), d, ord, s)
      ELSE IF fragment = NULL
      THEN Out(Response(404, createErrorResponse(404,
                 "Fragment not found")), d, ord, s)
      ELSE IF update(fragment.object, body, parsed.type).kind = "error"
      THEN Out(Response(500, createErrorResponse(500,
                 "Internal server error")), d, ord, s)
      ELSE Out(Response(200, createSuccessResponse(toJSON(fragment.object))),
               d, ord, s)

\* PUT /v1/fragments/:id
putHandler(b, d, ord, s, user, id, header, body) ==
  LET fragment == byId(d, user, id)
      parsed == contentTypeParse(header)
  IN  IF user = ""
      THEN Out(Response(401, createErrorResponse(401,
                 "Authentication required")), d, ord, s)
      ELSE IF fragment = NULL
      THEN Out(Response(404, createErrorResponse(404,
                 "Fragment not found")), d, ord, s)
      ELSE IF parsed.kind = "error"
      THEN Out(Response(415, createErrorResponse(415,
                 "Unsupported Media Type: Content-Type header is missing or invalid")),
               d, ord, s)
      ELSE IF ~isSupportedType(parsed.type)
      THEN Out(Response(415, createErrorResponse(415,
                 "Unsupported content type")), d, ord, s)
      ELSE IF body.kind # "buffer"
      THEN Out(Response(400, createErrorResponse(400,
                 "Invalid request body")), d, ord, s)
      ELSE IF Len(body.bytes) = 0
      THEN Out(Response(400, createErrorResponse(400,
                 "Request body cannot be empty")), d, ord, s)
      ELSE IF update(fragment.object, body, parsed.type).kind = "error"
      THEN Out(Response(500, createErrorResponse(500,
                 "Internal server error")), d, ord, s)
      ELSE Out(Response(200, createSuccessResponse(toJSON(fragment.object))),
               d, ord, s)

\* DELETE /v1/fragments/:id
deleteHandler(b, d, ord, s, user, id, ok) ==
  IF user = ""
  THEN Out(Response(401, createErrorResponse(401,
             "Authentication required")), d, ord, s)
  ELSE IF byId(d, user, id) = NULL
  THEN Out(Response(404, createErrorResponse(404, "Fragment not found")),
           d, ord, s)
  ELSE LET out == dataDeleteFragment(b, d, ord, s, user, id, ok)
       IN  IF out.res # Bool(TRUE)
           THEN Out(Response(500, createErrorResponse(500,
                      "Failed to delete fragment")),
                    out.db, out.order, out.s3)
           ELSE Out(Response(200, createSuccessMessage(
                      "Fragment deleted successfully")),
                    out.db, out.order, out.s3)

\* a request and the response it got
Request(op, user, id, header, body, ok, res) ==
  [op |-> op, ownerId |-> user, id |-> id, header |-> header, body |-> body,
   ok |-> ok, res |-> res]

\* the ids crypto.randomUUID() hands out to the fragments POST creates
RouteIds == <<"frag1", "frag2">>
\* the Content-Type headers of the requests; "" is a missing header
Headers == {"text/plain", "image/png", ""}
\* the bodies of the requests
Bodies == {NotBuffer} \cup {Buf(d) : d \in Payloads}

PostRequest(user, header, body) ==
  /\ issued < Len(RouteIds)
  /\ \E u \in {clock, clock + 1} \cap Times, ok \in S3Outcomes(backend) :
       LET parsed == contentTypeParse(header)
           type == IF parsed.kind = "error" THEN "" ELSE parsed.type
           f == Instance(RouteIds[issued + 1], user, type,
                         IF body.kind = "buffer" THEN Len(body.bytes) ELSE 0,
                         body, clock, u)
           out == postHandler(backend, db, order, s3, user, header, body, f,
                              ok)
           made == out.res.status \in {201, 500}
       IN  /\ Apply(out)
           /\ last' = Request("POST", user, IF made THEN f.id ELSE "", header,
                              body, ok, out.res)
           /\ issued' = IF made THEN issued + 1 ELSE issued
           /\ clock' = IF made THEN u ELSE clock
  /\ UNCHANGED <<backend, twin, asyncVars, inst, deleted, saved>>

PutRequest(user, id, header, body) ==
  /\ LET out == putHandler(backend, db, order, s3, user, id, header, body)
     IN  /\ Apply(out)
         /\ last' = Request("PUT", user, id, header, body, TRUE, out.res)
  /\ UNCHANGED <<backend, twin, asyncVars, modelVars>>

DeleteRequest(user, id) ==
  /\ \E ok \in S3Outcomes(backend) :
       LET out == deleteHandler(backend, db, order, s3, user, id, ok)
       IN  /\ Apply(out)
           /\ last' = Request("DELETE", user, id, "", NotBuffer, ok, out.res)
  /\ UNCHANGED <<backend, twin, asyncVars, modelVars>>

(***************************************************************************)
(* Conversion engine, src/converter.js.  A text is a sequence of tokens:   *)
(* the characters of the input and the literal pieces the code puts        *)
(* around them.  The input alphabet has a letter, the ampersand and a      *)
(* digit; it has no '<', ';', '*', quote or newline.                       *)
(***************************************************************************)
Chars == {"a", "&", "1"}
Texts == UNION {[1..n -> Chars] : n \in 0..MaxLen}

textTypes ==
  {"text/plain", "text/html", "text/css", "text/javascript", "text/markdown",
   "application/json"}
imageTypes ==
  {"image/png", "image/jpeg", "image/webp", "image/avif", "image/gif"}

\* the types handed to the converter: both families, the rest of the
\* allow-list and a type nobody knows
MimeTypes == textTypes \cup imageTypes \cup supportedTypes
               \cup {"application/pdf"}

\* canConvert without the fromType === toType test
canConvert_NoIdentity(fromType, toType) ==
  IF fromType \in textTypes /\ toType \in textTypes THEN TRUE
  ELSE IF fromType \in imageTypes /\ toType \in imageTypes THEN TRUE
  ELSE FALSE

\* canConvert(fromType, toType)
canConvert(fromType, toType) ==
  IF fromType = toType THEN TRUE
  ELSE IF fromType \in textTypes /\ toType \in textTypes THEN TRUE
  ELSE IF fromType \in imageTypes /\ toType \in imageTypes THEN TRUE
  ELSE FALSE

\* new Error(`${before}${fromType} to ${toType}${after}`)
TypeError2(before, fromType, toType, after) ==
  [kind |-> "error", text |-> <<before, fromType, " to ", toType, after>>]

MapTokens(text, M(_)) == [k \in 1..Len(text) |-> M(text[k])]

\* .replace of & < > " ' by their entities
escape5(c) ==
  CASE c = "&" -> "&amp;" [] c = "<" -> "&lt;" [] c = ">" -> "&gt;"
    [] c = "\"" -> "&quot;" [] c = "'" -> "&#39;" [] OTHER -> c
\* .replace of & < > " by their entities
escape4(c) ==
  CASE c = "&" -> "&amp;" [] c = "<" -> "&lt;" [] c = ">" -> "&gt;"
    [] c = "\"" -> "&quot;" [] OTHER -> c
\* .replace(/"/g, '&quot;')
escapeQuote(c) == IF c = "\"" THEN "&quot;" ELSE c
\* the entities the code turns back into characters
unescape(c) ==
  CASE c = "&nbsp;" -> " " [] c = "&amp;" -> "&" [] c = "&lt;" -> "<"
    [] c = "&gt;" -> ">" [] c = "&quot;" -> "\"" [] c = "&#39;" -> "'"
    [] OTHER -> c
Entities == {"&nbsp;", "&amp;", "&lt;", "&gt;", "&quot;", "&#39;"}
\* .replace(/&[^;]+;/g, ' ')
entityToSpace(c) == IF c \in Entities THEN " " ELSE c

\* .replace(/<[^>]*>/g, '')
Tags == {"<p>", "</p>"}
stripTags(text) == SelectSeq(text, LAMBDA c : c \notin Tags)

\* .trim()
Whitespace == {" ", "\n"}
RECURSIVE trimStart(_)
trimStart(text) ==
  IF text # <<>> /\ Head(text) \in Whitespace THEN trimStart(Tail(text))
  ELSE text
RECURSIVE trimEnd(_)
trimEnd(text) ==
  IF text # <<>> /\ text[Len(text)] \in Whitespace
  THEN trimEnd(SubSeq(text, 1, Len(text) - 1))
  ELSE text
trim(text) == trimEnd(trimStart(text))

\* md.render(text) of markdown-it on a text of the alphabet: one paragraph
\* with the ampersands escaped, nothing for the empty text
mdRender(text) ==
  IF text = <<>> THEN <<>>
  ELSE <<"<p>">> \o MapTokens(text, escape4) \o <<"</p>", "\n">>

\* JSON.parse(text) succeeds: on this alphabet only for a number of digits
validJSON(text) == text # <<>> /\ \A k \in 1..Len(text) : text[k] = "1"

\* JSON.stringify(text) of a string
stringify(text) == <<"\"">> \o text \o <<"\"">>

\* the three backquotes of a Markdown code fence
Fence == "[fence]"

hasNewline(text) == \E k \in 1..Len(text) : text[k] = "\n"

HtmlPage(body) ==
  <<"<!DOCTYPE html><html><head><meta charset=\"utf-8\"></head><body>">>
    \o body \o <<"</body></html>">>
\* `/* ${text.replace(/\*\//g, '* /')} */`
CssComment(text) == <<"/* ">> \o text \o <<" */">>
\* `// ${text.replace(/\n/g, '\n// ')}`
JsComment(text) ==
  <<"// ">> \o MapTokens(text, LAMBDA c : IF c = "\n" THEN "\n// " ELSE c)
\* tags out, entities to characters, trimmed
plainOf(text) == trim(MapTokens(stripTags(text), unescape))
\* tags out, entities to blanks, trimmed
blankedOf(text) == trim(MapTokens(stripTags(text), entityToSpace))

Found(text) == [found |-> TRUE, text |-> text]
NotFound == [found |-> FALSE]

\* the if / else if chain of convertText: the result string of the pair,
\* NotFound when the chain reaches its final else
textResult(text, fromType, toType) ==
  LET source == fromType = "text/css" \/ fromType = "text/javascript"
  IN
  IF fromType = "text/markdown" /\ toType = "text/html"
  THEN Found(mdRender(text))
  ELSE IF fromType = "text/plain" /\ toType = "text/html"
  THEN Found(HtmlPage(<<"<pre>">> \o MapTokens(text, escape5)
                        \o <<"</pre>">>))
  ELSE IF fromType = "text/markdown" /\ toType = "text/plain"
  THEN Found(plainOf(mdRender(text)))
  ELSE IF fromType = "text/plain" /\ toType = "text/markdown"
  THEN Found(IF hasNewline(text) \/ Len(text) > 50
             THEN <<Fence, "\n">> \o text \o <<"\n", Fence>> ELSE text)
  ELSE IF fromType = "text/html" /\ toType = "text/plain"
  THEN Found(plainOf(text))
  ELSE IF fromType = "text/html" /\ toType = "text/markdown"
  THEN Found(plainOf(text))
  ELSE IF source /\ toType = "text/plain"
  THEN Found(text)
  ELSE IF fromType = "application/json" /\ toType = "text/plain"
  THEN Found(text)   \* a number of digits is written back as it was read
  ELSE IF fromType = "text/plain" /\ toType = "application/json"
  THEN Found(stringify(text))
  ELSE IF source /\ toType = "application/json"
  THEN Found(stringify(text))
  ELSE IF fromType = "text/markdown" /\ toType = "application/json"
  THEN Found(stringify(text))
  ELSE IF fromType = "text/html" /\ toType = "application/json"
  THEN Found(stringify(text))
  ELSE IF fromType = "application/json" /\ toType = "text/html"
  THEN Found(HtmlPage(<<"<pre>">> \o MapTokens(text, escape4)
                        \o <<"</pre>">>))
  ELSE IF fromType = "application/json" /\ toType = "text/markdown"
  THEN Found(<<Fence, "json\n">> \o MapTokens(text, escapeQuote) \o <<"\n", Fence>>)
  ELSE IF source /\ toType = "text/html"
  THEN LET tag == IF fromType = "text/css" THEN "style" ELSE "script"
       IN  Found(HtmlPage(<<"<", tag, ">">> \o MapTokens(text, escape5)
                            \o <<"</", tag, ">">>))
  ELSE IF source /\ toType = "text/markdown"
  THEN LET lang == IF fromType = "text/css" THEN "css" ELSE "javascript"
       IN  Found(<<Fence, lang, "\n">> \o text \o <<"\n", Fence>>)
  ELSE IF fromType = "text/plain" /\ toType = "text/css"
  THEN Found(CssComment(text))
  ELSE IF fromType = "text/plain" /\ toType = "text/javascript"
  THEN Found(JsComment(text))
  ELSE IF fromType = "text/html" /\ toType = "text/css"
  THEN Found(CssComment(blankedOf(text)))
  ELSE IF fromType = "text/html" /\ toType = "text/javascript"
  THEN Found(JsComment(blankedOf(text)))
  ELSE IF fromType = "text/css" /\ toType = "text/javascript"
  THEN Found(CssComment(text))
  ELSE IF fromType = "text/javascript" /\ toType = "text/css"
  THEN Found(CssComment(text))
  ELSE IF fromType = "text/markdown" /\ toType = "text/css"
  THEN Found(CssComment(blankedOf(mdRender(text))))
  ELSE IF fromType = "text/markdown" /\ toType = "text/javascript"
  THEN Found(JsComment(blankedOf(mdRender(text))))
  ELSE IF fromType = "application/json" /\ toType = "text/css"
  THEN Found(CssComment(text))
  ELSE IF fromType = "application/json" /\ toType = "text/javascript"
  THEN Found(IF validJSON(text)
             THEN <<"const data = ">> \o text \o <<";">>
             ELSE JsComment(text))
  ELSE NotFound

\* convertText whose table has no pair with a JSON source
convertText_NoJsonSource(data, fromType, toType) ==
  IF fromType = toType THEN [res |-> data, calls |-> <<"convertText">>]
  ELSE LET r == textResult(data.bytes, fromType, toType)
       IN  IF ~r.found \/ fromType = "application/json"
           THEN [res |-> TypeError2("Unsupported text conversion from ",
                                    fromType, toType, ""),
                 calls |-> <<"convertText">>]
           ELSE [res |-> Buf(r.text), calls |-> <<"convertText">>]

\* convertText(data, fromType, toType): its result and the routines run
convertText(data, fromType, toType) ==
  IF fromType = toType THEN [res |-> data, calls |-> <<"convertText">>]
  ELSE LET r == textResult(data.bytes, fromType, toType)
       IN  IF ~r.found
           THEN [res |-> TypeError2("Unsupported text conversion from ",
                                    fromType, toType, ""),
                 calls |-> <<"convertText">>]
           ELSE [res |-> Buf(r.text), calls |-> <<"convertText">>]

\* the output formats of the switch in convertImage
outputFormat(toType) ==
  CASE toType = "image/png" -> "png" [] toType = "image/jpeg" -> "jpeg"
    [] toType = "image/webp" -> "webp" [] toType = "image/avif" -> "avif"
    [] toType = "image/gif" -> "gif" [] OTHER -> ""

\* convertImage(data, fromType, toType); ok says whether sharp could decode
\* and re-encode the input, its output stands for the re-encoded bytes
convertImage(data, fromType, toType, ok) ==
  IF fromType = toType THEN [res |-> data, calls |-> <<"convertImage">>]
  ELSE IF outputFormat(toType) = ""
  THEN [res |-> TypeError2("Unsupported image target type: ", "", toType, ""),
        calls |-> <<"convertImage", "sharp">>]
  ELSE IF ~ok
  THEN [res |-> Err("Input buffer contains unsupported image format"),
        calls |-> <<"convertImage", "sharp">>]
  ELSE [res |-> Buf(<<"sharp", outputFormat(toType)>> \o data.bytes),
        calls |-> <<"convertImage", "sharp">>]

\* convert that dispatches on the families before it asks canConvert
convert_DispatchFirst(data, fromType, toType, ok) ==
  IF fromType \in textTypes /\ toType \in textTypes
  THEN convertText(data, fromType, toType)
  ELSE IF fromType \in imageTypes /\ toType \in imageTypes
  THEN convertImage(data, fromType, toType, ok)
  ELSE IF ~canConvert(fromType, toType)
  THEN [res |-> TypeError2("Unsupported conversion from ", fromType, toType,
                           ""),
        calls |-> <<>>]
  ELSE [res |-> data, calls |-> <<>>]

\* convert(data, fromType, toType)
convert(data, fromType, toType, ok) ==
  IF ~canConvert(fromType, toType)
  THEN [res |-> TypeError2("Conversion from ", fromType, toType,
                           " is not supported"),
        calls |-> <<>>]
  ELSE IF fromType \in textTypes /\ toType \in textTypes
  THEN convertText(data, fromType, toType)
  ELSE IF fromType \in imageTypes /\ toType \in imageTypes
  THEN convertImage(data, fromType, toType, ok)
  ELSE [res |-> TypeError2("Unsupported conversion from ", fromType, toType,
                           ""),
        calls |-> <<>>]

\* the engine keeps nothing between calls: one call is looked at on its own
CanConvertCall(fromType, toType) ==
  /\ last = NoCall
  /\ last' = [op |-> "canConvert", fromType |-> fromType, toType |-> toType,
              res |-> Bool(canConvert(fromType, toType))]
  /\ UNCHANGED <<backend, twin, asyncVars, storeVars, modelVars>>

ConvertCall(data, fromType, toType) ==
  /\ last = NoCall
  /\ \E ok \in BOOLEAN :
       LET out == convert(data, fromType, toType, ok)
       IN  last' = [op |-> "convert", data |-> data, fromType |-> fromType,
                    toType |-> toType, ok |-> ok, res |-> out.res,
                    calls |-> out.calls]
  /\ UNCHANGED <<backend, twin, asyncVars, storeVars, modelVars>>

\* a type string with a parameter after the type token
WithParameter(type) == type \o "; charset=utf-8"
\* the strings handed to Fragment.isSupportedType: bare types, types with a
\* parameter, the empty string
TypeArgs == MimeTypes \cup {WithParameter(t) : t \in MimeTypes} \cup {""}

IsSupportedTypeCall(type) ==
  /\ last = NoCall
  /\ last' = [op |-> "isSupportedType", type |-> type,
              res |-> Bool(isSupportedType(type))]
  /\ UNCHANGED <<backend, twin, asyncVars, storeVars, modelVars>>

ConvNext ==
  \/ \E f \in MimeTypes, t \in MimeTypes : CanConvertCall(f, t)
  \/ \E d \in Texts, f \in MimeTypes, t \in MimeTypes :
       ConvertCall(Buf(d), f, t)
  \/ \E t \in TypeArgs : IsSupportedTypeCall(t)

\* callers of the pure functions: the conversion engine and the type check
ConvSpec == Init /\ [][ConvNext]_vars

(***************************************************************************)
(* Route handlers that read, src/routes/api/get-by-id.js and get-info.js   *)
(***************************************************************************)
\* extension.toLowerCase() on the extensions of the requests
toLowerCase(extension) ==
  CASE extension = ".HTML" -> ".html" [] extension = ".Png" -> ".png"
    [] OTHER -> extension

\* extensionToMimeType(extension): extensionMap[...] || null
extensionToMimeType(extension) ==
  LET e == toLowerCase(extension)
  IN  CASE e = ".txt" -> "text/plain" [] e = ".html" -> "text/html"
        [] e = ".css" -> "text/css" [] e = ".js" -> "text/javascript"
        [] e = ".md" -> "text/markdown" [] e = ".json" -> "application/json"
        [] e = ".png" -> "image/png" [] e = ".jpg" -> "image/jpeg"
        [] e = ".jpeg" -> "image/jpeg" [] e = ".webp" -> "image/webp"
        [] e = ".avif" -> "image/avif" [] e = ".gif" -> "image/gif"
        [] OTHER -> ""

\* err.message of an Error the converter threw
message(err) ==
  IF "message" \in DOMAIN err THEN err.message
  ELSE err.text[1] \o err.text[2] \o err.text[3] \o err.text[4]
         \o err.text[5]

\* the :id parameter of a request: an id followed by an extension, "" when
\* the parameter holds no dot
Param(id, ext) == [id |-> id, ext |-> ext]

\* res.setHeader('Content-Type', contentType); res.status(200).send(data)
Send(contentType, data) ==
  [kind |-> "response", status |-> 200, contentType |-> contentType,
   body |-> data]

\* what a reading handler leaves behind: the response and the converter
\* routines that ran
Answer(res, calls) == [res |-> res, calls |-> calls]

\* GET /v1/fragments/:id that hands every other target type to convert
\* without asking canConvert
getByIdHandler_NoCanConvert(b, d, s, user, param, ok, okc) ==
  LET fragment == byId(d, user, param.id)
  IN  IF user = ""
      THEN Answer(Response(401, createErrorResponse(401,
                    "Authentication required")), <<>>)
      ELSE IF fragment = NULL
      THEN Answer(Response(404, createErrorResponse(404,
                    "Fragment not found")), <<>>)
      ELSE
      LET f == fragment.object
          data == getData(b, d, s, f, ok).res
          targetType == extensionToMimeType(param.ext)
      IN  IF data.kind = "error"
          THEN Answer(Response(500, createErrorResponse(500,
                        "Internal server error")), <<>>)
          ELSE IF data = NULL
          THEN Answer(Response(404, createErrorResponse(404,
                        "Fragment data not found")), <<>>)
          ELSE IF param.ext = "" THEN Answer(Send(f.type, data), <<>>)
          ELSE IF targetType = ""
          THEN Answer(Response(415, createErrorResponse(415,
                        "Unknown file extension: " \o param.ext)), <<>>)
          ELSE IF f.type = targetType THEN Answer(Send(targetType, data), <<>>)
          ELSE LET c == convert(data, f.type, targetType, okc)
               IN  IF c.res.kind = "error"
                   THEN Answer(Response(415, createErrorResponse(415,
                                 "Conversion failed: " \o message(c.res))),
                               <<"convert">> \o c.calls)
                   ELSE Answer(Send(targetType, c.res),
                               <<"convert">> \o c.calls)

\* GET /v1/fragments/:id
getByIdHandler(b, d, s, user, param, ok, okc) ==
  LET fragment == byId(d, user, param.id)
  IN  IF user = ""
      THEN Answer(Response(401, createErrorResponse(401,
                    "Authentication required")), <<>>)
      ELSE IF fragment = NULL
      THEN Answer(Response(404, createErrorResponse(404,
                    "Fragment not found")), <<>>)
      ELSE
      LET f == fragment.object
          data == getData(b, d, s, f, ok).res
          targetType == extensionToMimeType(param.ext)
      IN  IF data.kind = "error"
          THEN Answer(Response(500, createErrorResponse(500,
                        "Internal server error")), <<>>)
          ELSE IF data = NULL
          THEN Answer(Response(404, createErrorResponse(404,
                        "Fragment data not found")), <<>>)
          ELSE IF param.ext = "" THEN Answer(Send(f.type, data), <<>>)
          ELSE IF targetType = ""
          THEN Answer(Response(415, createErrorResponse(415,
                        "Unknown file extension: " \o param.ext)), <<>>)
          ELSE IF f.type = targetType THEN Answer(Send(targetType, data), <<>>)
          ELSE IF ~canConvert(f.type, targetType)
          THEN Answer(Response(415, createErrorResponse(415,
                        "Conversion from " \o f.type \o " to "
                          \o targetType \o " is not supported")), <<>>)
          ELSE LET c == convert(data, f.type, targetType, okc)
               IN  IF c.res.kind = "error"
                   THEN Answer(Response(415, createErrorResponse(415,
                                 "Conversion failed: " \o message(c.res))),
                               <<"convert">> \o c.calls)
                   ELSE Answer(Send(targetType, c.res),
                               <<"convert">> \o c.calls)

\* GET /v1/fragments/:id/info
getInfoHandler(d, user, id) ==
  IF user = ""
  THEN Response(401, createErrorResponse(401, "Authentication required"))
  ELSE IF byId(d, user, id) = NULL
  THEN Response(404, createErrorResponse(404, "Fragment not found"))
  ELSE Response(200, createSuccessResponse(toJSON(byId(d, user, id).object)))

\* a GET of a fragment and the response it got
GetRequest(op, user, id, ext, ok, res, calls) ==
  [op |-> op, ownerId |-> user, id |-> id, ext |-> ext, ok |-> ok,
   res |-> res, calls |-> calls]

GetByIdRequest(user, id, ext) ==
  /\ \E ok \in S3Outcomes(backend) :
       LET out == getByIdHandler(backend, db, s3, user, Param(id, ext), ok,
                                 TRUE)
       IN  last' = GetRequest("GET", user, id, ext, ok, out.res, out.calls)
  /\ UNCHANGED <<backend, twin, asyncVars, storeVars, modelVars>>

GetInfoRequest(user, id) ==
  /\ last' = GetRequest("GET info", user, id, "", TRUE,
                        getInfoHandler(db, user, id), <<>>)
  /\ UNCHANGED <<backend, twin, asyncVars, storeVars, modelVars>>

\* the extensions of the requests of RouteSpec: none, the one of the stored
\* type, one of the other family, one outside the table
RouteExts == {"", ".txt", ".png", ".zzz"}

RouteNext ==
  \/ \E o \in Owners, h \in Headers, b \in Bodies : PostRequest(o, h, b)
  \/ \E o \in Owners, id \in Ids, h \in Headers, b \in Bodies :
       PutRequest(o, id, h, b)
  \/ \E o \in Owners, id \in Ids : DeleteRequest(o, id)
  \/ \E o \in Owners, id \in Ids, e \in RouteExts : GetByIdRequest(o, id, e)
  \/ \E o \in Owners, id \in Ids : GetInfoRequest(o, id)

\* callers that go through the HTTP API; the clock moves when POST builds a
\* fragment
RouteSpec == Init /\ [][RouteNext]_vars

\* the Content-Type headers and the extensions of the requests of ReadSpec
ReadHeaders == {"text/markdown", "text/plain", "text/xml"}
ReadExts == {"", ".txt", ".html", ".HTML", ".png", ".zzz"}

ReadNext ==
  \/ \E h \in ReadHeaders, d \in Texts :
       issued = 0 /\ PostRequest("user1", h, Buf(d))
  \/ \E o \in Owners, id \in Ids, e \in ReadExts : GetByIdRequest(o, id, e)

\* one fragment is posted and then read under the extensions
ReadSpec == Init /\ [][ReadNext]_vars

(***************************************************************************)
(* Asynchronous calls.  An async function runs to its next await in one    *)
(* step.  An await on a promise that is settled already (every call of the *)
(* volatile backend and every MemoryDB access) resumes from the microtask  *)
(* queue, first in first out; an await on a request to S3 resumes when the *)
(* request completes, which happens in any order once the microtask queue  *)
(* is empty.  A request to S3 takes effect when it completes.              *)
(***************************************************************************)
\* the slot holds no call that is still running
Settled(t) == tasks[t].pc = "done"
\* the call is the next to resume from the microtask queue
Next1(t) == microtasks # <<>> /\ Head(microtasks) = t
\* the call waits for S3 and the event loop is free to run its callback
Waiting(t) == tasks[t].pc = "io" /\ microtasks = <<>>

\* deleteFragment of the durable backend up to the DeleteObject request:
\* whether the record is there and belongs to the caller
awsDeleteCheck(d, ownerId, id) == readFragment(d, ownerId, id) # NULL

\* deleteFragment of the durable backend that gives up when the
\* DeleteObject request failed
awsDeleteFinish_AbortsOnFailure(d, ord, s, ownerId, id, ok) ==
  IF ~ok THEN Out(Err("unable to delete fragment data"), d, ord, s)
  ELSE Out(Bool(has(d, id)), delete(d, id), deleteOrder(ord, id),
           [s EXCEPT ![S3Key(ownerId, id)] = NULL])

\* deleteFragment of the durable backend from the end of the DeleteObject
\* request: a failure is logged only, MemoryDB.delete says what is returned
awsDeleteFinish(d, ord, s, ownerId, id, ok) ==
  Out(Bool(has(d, id)), delete(d, id), deleteOrder(ord, id),
      IF ok THEN [s EXCEPT ![S3Key(ownerId, id)] = NULL] ELSE s)

\* save(): the synchronous part, through data.writeFragment(fragmentData)
StartSave(t, i) ==
  /\ Settled(t)
  /\ Idle(i)
  /\ LET f == inst[i]
         out == writeFragment(db, order, s3, f.id, fragmentData(f))
     IN  /\ Apply(out)
         /\ tasks' = [tasks EXCEPT ![t] =
              [op |-> "save", pc |-> "queued", at |-> "writeFragment",
               by |-> i, id |-> f.id, ownerId |-> f.ownerId,
               meta |-> fragmentData(f), data |-> NULL, res |-> NULL]]
  /\ microtasks' = Append(microtasks, t)
  /\ UNCHANGED <<backend, twin, faulted, last, modelVars>>

\* save() resumes after await data.writeFragment: if (this.data) it calls
\* data.writeFragmentData, else it returns
ResumeSaveMeta(t) ==
  /\ Next1(t)
  /\ tasks[t].op = "save"
  /\ tasks[t].at = "writeFragment"
  /\ LET f == inst[tasks[t].by]
     IN  IF f.data = NULL
         THEN /\ tasks' = [tasks EXCEPT ![t].pc = "done", ![t].res = Obj(f)]
              /\ microtasks' = Tail(microtasks)
              /\ UNCHANGED storeVars
         ELSE IF backend = "aws"
         THEN /\ tasks' = [tasks EXCEPT ![t].pc = "io",
                                        ![t].at = "writeFragmentData",
                                        ![t].data = f.data]
              /\ microtasks' = Tail(microtasks)
              /\ UNCHANGED storeVars
         ELSE LET out == writeFragmentData(db, order, s3, f.ownerId, f.id,
                                           f.data.bytes)
              IN  /\ Apply(out)
                  /\ tasks' = [tasks EXCEPT ![t].at = "writeFragmentData",
                                            ![t].data = f.data,
                                            ![t].res = out.res]
                  /\ microtasks' = Append(Tail(microtasks), t)
  /\ UNCHANGED <<backend, twin, faulted, last, modelVars>>

\* save() resumes after await data.writeFragmentData of the volatile
\* backend: it returns this or throws what the call threw
ResumeSaveData(t) ==
  /\ Next1(t)
  /\ tasks[t].op = "save"
  /\ tasks[t].at = "writeFragmentData"
  /\ tasks' = [tasks EXCEPT ![t].pc = "done",
                            ![t].res = IF tasks[t].res.kind = "error"
                                       THEN tasks[t].res
                                       ELSE Obj(inst[tasks[t].by])]
  /\ microtasks' = Tail(microtasks)
  /\ UNCHANGED <<backend, twin, faulted, storeVars, last, modelVars>>

\* the PutObject of a save() completes: writeFragmentData goes on to its
\* metadata check and save() returns or throws
CompleteSave(t, ok) ==
  /\ Waiting(t)
  /\ tasks[t].op = "save"
  /\ LET out == awsWriteFragmentData(db, order, s3, tasks[t].ownerId,
                                     tasks[t].id, tasks[t].data.bytes, ok)
     IN  /\ Apply(out)
         /\ tasks' = [tasks EXCEPT ![t].pc = "done",
                                   ![t].res = IF out.res.kind = "error"
                                              THEN out.res
                                              ELSE Obj(inst[tasks[t].by])]
  /\ faulted' = (faulted \/ ~ok)
  /\ UNCHANGED <<backend, twin, microtasks, last, modelVars>>

\* Fragment.delete(ownerId, id): the synchronous part of data.deleteFragment
StartDelete(t, ownerId, id) ==
  /\ Settled(t)
  /\ IF backend = "aws"
     THEN /\ tasks' = [tasks EXCEPT ![t] =
               [op |-> "delete", at |-> "deleteFragment",
                pc |-> IF awsDeleteCheck(db, ownerId, id) THEN "io"
                       ELSE "queued",
                id |-> id, ownerId |-> ownerId, sent |-> <<>>,
                res |-> Bool(FALSE)]]
          /\ microtasks' = IF awsDeleteCheck(db, ownerId, id) THEN microtasks
                           ELSE Append(microtasks, t)
          /\ UNCHANGED storeVars
     ELSE LET out == deleteFragment(db, order, s3, ownerId, id)
          IN  /\ Apply(out)
              /\ tasks' = [tasks EXCEPT ![t] =
                   [op |-> "delete", at |-> "deleteFragment",
                    pc |-> "queued", id |-> id, ownerId |-> ownerId,
                    sent |-> <<>>, res |-> out.res]]
              /\ microtasks' = Append(microtasks, t)
  /\ UNCHANGED <<backend, twin, faulted, last, modelVars>>

\* Fragment.delete resumes after await data.deleteFragment and returns
ResumeDelete(t) ==
  /\ Next1(t)
  /\ tasks[t].op = "delete"
  /\ tasks' = [tasks EXCEPT ![t].pc = "done"]
  /\ microtasks' = Tail(microtasks)
  /\ UNCHANGED <<backend, twin, faulted, storeVars, last, modelVars>>

\* the DeleteObject of a deleteFragment completes or fails, then
\* MemoryDB.delete(id); sent is what the call did, in order
CompleteDelete(t, ok) ==
  /\ Waiting(t)
  /\ tasks[t].op = "delete"
  /\ LET out == awsDeleteFinish(db, order, s3, tasks[t].ownerId, tasks[t].id,
                                ok)
     IN  /\ Apply(out)
         /\ tasks' = [tasks EXCEPT
              ![t].pc = "done",
              ![t].sent = <<IF ok THEN "DeleteObject"
                            ELSE "DeleteObject failed", "MemoryDB.delete">>,
              ![t].res = out.res]
  /\ faulted' = (faulted \/ ~ok)
  /\ UNCHANGED <<backend, twin, microtasks, last, modelVars>>

\* DELETE /v1/fragments/:id arrives: the handler runs up to
\* await Fragment.byId
StartDeleteRequest(t, user, id) ==
  /\ Settled(t)
  /\ microtasks = <<>>
  /\ tasks' = [tasks EXCEPT ![t] =
       [op |-> "DELETE", pc |-> "queued", at |-> "byId", id |-> id,
        ownerId |-> user, fragment |-> byId(db, user, id),
        deleted |-> Bool(FALSE), res |-> NULL]]
  /\ microtasks' = Append(microtasks, t)
  /\ UNCHANGED <<backend, twin, faulted, storeVars, last, modelVars>>

\* the handler resumes after await Fragment.byId: 404, or Fragment.delete
ResumeDeleteRequestById(t) ==
  /\ Next1(t)
  /\ tasks[t].op = "DELETE"
  /\ tasks[t].at = "byId"
  /\ LET user == tasks[t].ownerId
         id == tasks[t].id
     IN  IF tasks[t].fragment = NULL
         THEN /\ tasks' = [tasks EXCEPT ![t].pc = "done",
                   ![t].res = Response(404, createErrorResponse(404,
                                         "Fragment not found"))]
              /\ microtasks' = Tail(microtasks)
              /\ UNCHANGED storeVars
         ELSE IF backend = "aws"
         THEN /\ tasks' = [tasks EXCEPT
                   ![t].at = "delete",
                   ![t].pc = IF awsDeleteCheck(db, user, id) THEN "io"
                             ELSE "queued"]
              /\ microtasks' = IF awsDeleteCheck(db, user, id)
                               THEN Tail(microtasks)
                               ELSE Append(Tail(microtasks), t)
              /\ UNCHANGED storeVars
         ELSE LET out == deleteFragment(db, order, s3, user, id)
              IN  /\ Apply(out)
                  /\ tasks' = [tasks EXCEPT ![t].at = "delete",
                                            ![t].deleted = out.res]
                  /\ microtasks' = Append(Tail(microtasks), t)
  /\ UNCHANGED <<backend, twin, faulted, last, modelVars>>

\* the response of the handler once Fragment.delete has returned
deleteResponse(result) ==
  IF result # Bool(TRUE)
  THEN Response(500, createErrorResponse(500, "Failed to delete fragment"))
  ELSE Response(200, createSuccessMessage("Fragment deleted successfully"))

\* the handler resumes after await Fragment.delete and answers
ResumeDeleteRequestDelete(t) ==
  /\ Next1(t)
  /\ tasks[t].op = "DELETE"
  /\ tasks[t].at = "delete"
  /\ tasks' = [tasks EXCEPT ![t].pc = "done",
                            ![t].res = deleteResponse(tasks[t].deleted)]
  /\ microtasks' = Tail(microtasks)
  /\ UNCHANGED <<backend, twin, faulted, storeVars, last, modelVars>>

\* the DeleteObject of the handler's Fragment.delete completes or fails,
\* then MemoryDB.delete(id), and the handler answers
CompleteDeleteRequest(t, ok) ==
  /\ Waiting(t)
  /\ tasks[t].op = "DELETE"
  /\ LET out == awsDeleteFinish(db, order, s3, tasks[t].ownerId, tasks[t].id,
                                ok)
     IN  /\ Apply(out)
         /\ tasks' = [tasks EXCEPT ![t].pc = "done",
                                   ![t].deleted = out.res,
                                   ![t].res = deleteResponse(out.res)]
  /\ faulted' = (faulted \/ ~ok)
  /\ UNCHANGED <<backend, twin, microtasks, last, modelVars>>

\* the next call in the microtask queue runs to its next await
Resume(t) ==
  \/ ResumeSaveMeta(t)
  \/ ResumeSaveData(t)
  \/ ResumeDelete(t)
  \/ ResumeDeleteRequestById(t)
  \/ ResumeDeleteRequestDelete(t)

\* a request to S3 completes
Complete(t) ==
  \E ok \in BOOLEAN :
    \/ CompleteSave(t, ok)
    \/ CompleteDelete(t, ok)
    \/ CompleteDeleteRequest(t, ok)

\* the slot a new call takes: the first one that is free
FreeSlot(t) == Settled(t) /\ (t = "t2" => ~Settled("t1"))

\* a save() of the fragment is in flight
Saving(i) ==
  \E t \in Tasks :
    tasks[t].op = "save" /\ tasks[t].pc # "done" /\ tasks[t].by = i

\* the constructor is given a size that is the length of its data; setData
\* is called on fragments loaded through byId, between their saves; the
\* owner deletes
RaceNext ==
  \/ \E i \in Insts, o \in Creators, d \in Payloads :
       New(i, o, "text/plain", Len(d), Buf(d))
  \/ \E i \in Insts, o \in Creators, id \in Ids : ById(i, o, id)
  \/ \E d \in Payloads : ~Saving("b") /\ SetData("b", Buf(d))
  \/ \E t \in Tasks, i \in Insts : FreeSlot(t) /\ StartSave(t, i)
  \/ \E t \in Tasks, o \in Creators, id \in IssuedIds :
       FreeSlot(t) /\ StartDelete(t, o, id)
  \/ \E t \in Tasks, o \in Creators, id \in IssuedIds :
       FreeSlot(t) /\ StartDeleteRequest(t, o, id)
  \/ \E t \in Tasks : Resume(t)
  \/ \E t \in Tasks : Complete(t)

\* callers whose save(), delete() and DELETE requests overlap
RaceSpec == Init /\ [][RaceNext]_vars

(***************************************************************************)
(* Fragment.byUser, src/model/fragment.js:157-176                          *)
(***************************************************************************)
\* fragment.data = dataBuffer on a listed item
Attach(fragment, dataBuffer) ==
  [id |-> fragment.id, ownerId |-> fragment.ownerId, type |-> fragment.type,
   size |-> fragment.size, created |-> fragment.created,
   updated |-> fragment.updated, data |-> dataBuffer]

\* the loop reaches item k: data.readFragmentData(ownerId, fragment.id) is
\* called; the volatile backend has its answer at once, the durable one
\* sends a GetObject
byUserRead(b, d, task, k) ==
  LET id == task.list[k].id
  IN  [task EXCEPT
         !.k = k,
         !.reads = Append(@, id),
         !.pc = IF b = "aws" THEN "io" ELSE "queued",
         !.got = IF b = "aws" THEN NULL
                 ELSE readFragmentData(d, task.ownerId, id)]

\* a loop that goes on to the next item when a read has failed
byUserStep_SkipsFailed(b, d, task, r) ==
  LET list == [task.list EXCEPT ![task.k] =
                 Attach(@, IF r.kind = "error" THEN NULL ELSE r)]
      next == [task EXCEPT !.list = list, !.answers = Append(@, r)]
  IN  IF task.k < Len(list) THEN byUserRead(b, d, next, task.k + 1)
      ELSE [next EXCEPT !.pc = "done", !.res = Arr(list)]

\* the await of the read of item k ends with r: a rejection leaves the
\* function, a value is attached and the loop goes on or the list is returned
byUserStep(b, d, task, r) ==
  LET list == [task.list EXCEPT ![task.k] = Attach(@, r)]
      next == [task EXCEPT !.list = list, !.answers = Append(@, r)]
  IN  IF r.kind = "error"
      THEN [task EXCEPT !.answers = Append(@, r), !.pc = "done", !.res = r]
      ELSE IF task.k < Len(list) THEN byUserRead(b, d, next, task.k + 1)
      ELSE [next EXCEPT !.pc = "done", !.res = Arr(list)]

\* Fragment.byUser(ownerId, expand) up to await data.listFragments: the
\* listing is taken when the call is made
StartByUser(t, ownerId, expand) ==
  /\ Settled(t)
  /\ tasks' = [tasks EXCEPT ![t] =
       [op |-> "byUser", pc |-> "queued", at |-> "listFragments",
        ownerId |-> ownerId, expand |-> expand,
        list |-> dataListFragments(db, order, ownerId, expand).items,
        k |-> 0, reads |-> <<>>, answers |-> <<>>, got |-> NULL,
        res |-> NULL]]
  /\ microtasks' = Append(microtasks, t)
  /\ UNCHANGED <<backend, twin, faulted, storeVars, last, modelVars>>

\* byUser resumes from the microtask queue: after the listing it enters the
\* loop or returns, after a read of the volatile backend it takes the answer
ResumeByUser(t) ==
  /\ Next1(t)
  /\ tasks[t].op = "byUser"
  /\ LET task == tasks[t]
         rest == [task EXCEPT !.pc = "idle"]
         after ==
           IF task.at = "listFragments"
           THEN IF task.expand /\ Len(task.list) > 0
                THEN byUserRead(backend, db, [rest EXCEPT !.at = "read"], 1)
                ELSE [task EXCEPT !.pc = "done", !.res = Arr(task.list)]
           ELSE byUserStep(backend, db, rest, task.got)
     IN  /\ tasks' = [tasks EXCEPT ![t] = after]
         /\ microtasks' = IF after.pc = "queued"
                          THEN Append(Tail(microtasks), t)
                          ELSE Tail(microtasks)
  /\ UNCHANGED <<backend, twin, faulted, storeVars, last, modelVars>>

\* the GetObject of the read in flight completes or fails
CompleteByUser(t, ok) ==
  /\ Waiting(t)
  /\ tasks[t].op = "byUser"
  /\ LET task == tasks[t]
         r == awsReadFragmentData(s3, task.ownerId, task.list[task.k].id, ok)
     IN  tasks' = [tasks EXCEPT ![t] = byUserStep(backend, db, task, r)]
  /\ faulted' = (faulted \/ ~ok)
  /\ UNCHANGED <<backend, twin, microtasks, storeVars, last, modelVars>>

\* the calls other callers make while a listing runs; what they return goes
\* to them
ListMeta == Meta("user1", "text/plain", 0, 0, 0)

OtherWrite(id) ==
  /\ Apply(writeFragment(db, order, s3, id, ListMeta))
  /\ UNCHANGED <<backend, twin, asyncVars, last, modelVars>>

OtherWriteData(id, data) ==
  /\ Apply(dataWriteFragmentData(backend, db, order, s3, "user1", id, data,
                                 TRUE))
  /\ UNCHANGED <<backend, twin, asyncVars, last, modelVars>>

OtherDelete(id) ==
  /\ Apply(dataDeleteFragment(backend, db, order, s3, "user1", id, TRUE))
  /\ UNCHANGED <<backend, twin, asyncVars, last, modelVars>>

ListNext ==
  \/ \E id \in Ids : OtherWrite(id)
  \/ \E id \in Ids, d \in Payloads : OtherWriteData(id, d)
  \/ \E id \in Ids : OtherDelete(id)
  \/ \E e \in BOOLEAN : StartByUser("t1", "user1", e)
  \/ ResumeByUser("t1")
  \/ \E ok \in BOOLEAN : CompleteByUser("t1", ok)

\* callers that list the fragments of a user while the stores change
ListSpec == Init /\ [][ListNext]_vars

(***************************************************************************)
(* The two backend modules side by side: src/model/data/memory/index.js    *)
(* and src/model/data/aws/index.js given the same calls, no S3 request     *)
(* failing.  twin is what the module that backend did not select returned  *)
(* last, and its stores.                                                   *)
(***************************************************************************)
Other(b) == IF b = "aws" THEN "memory" ELSE "aws"

BothWriteFragment(id, fragment) ==
  /\ LET out == writeFragment(db, order, s3, id, fragment)
     IN  /\ Apply(out)
         /\ last' = Call("writeFragment", fragment.ownerId, id, TRUE,
                         out.res)
  /\ twin' = writeFragment(twin.db, twin.order, twin.s3, id, fragment)
  /\ UNCHANGED <<backend, asyncVars, modelVars>>

BothWriteFragmentData(ownerId, id, data) ==
  /\ LET out == dataWriteFragmentData(backend, db, order, s3, ownerId, id,
                                      data, TRUE)
     IN  /\ Apply(out)
         /\ last' = Call("writeFragmentData", ownerId, id, TRUE, out.res)
  /\ twin' = dataWriteFragmentData(Other(backend), twin.db, twin.order,
                                   twin.s3, ownerId, id, data, TRUE)
  /\ UNCHANGED <<backend, asyncVars, modelVars>>

BothDeleteFragment(ownerId, id) ==
  /\ LET out == dataDeleteFragment(backend, db, order, s3, ownerId, id, TRUE)
     IN  /\ Apply(out)
         /\ last' = Call("deleteFragment", ownerId, id, TRUE, out.res)
  /\ twin' = dataDeleteFragment(Other(backend), twin.db, twin.order, twin.s3,
                                ownerId, id, TRUE)
  /\ UNCHANGED <<backend, asyncVars, modelVars>>

\* readFragment, readFragmentData and listFragments change nothing: their
\* answers are the operators applied to the stores
TwinNext ==
  \/ \E id \in Ids, f \in MetaInputs : BothWriteFragment(id, f)
  \/ \E o \in Owners, id \in Ids, d \in Payloads :
       BothWriteFragmentData(o, id, d)
  \/ \E o \in Owners, id \in Ids : BothDeleteFragment(o, id)

TwinSpec == Init /\ [][TwinNext]_vars

(***************************************************************************)
(* Properties                                                              *)
(***************************************************************************)
\* the stores as they would be if id had no metadata record
Missing(d, id) == delete(d, id)
MissingOrder(ord, id) == deleteOrder(ord, id)

\* C1: for every call that takes (ownerId, id), a caller who is not the
\* stored owner of id gets the result or error it would get if id had no
\* record at all
C1_NonOwnerSameAsMissing ==
  \A o \in Owners, id \in Ids :
    (db[id] # NULL /\ db[id].ownerId # o) =>
      /\ readFragment(db, o, id) = readFragment(Missing(db, id), o, id)
      /\ \A ok \in S3Outcomes(backend) :
           /\ dataReadFragmentData(backend, db, s3, o, id, ok)
                = dataReadFragmentData(backend, Missing(db, id), s3, o, id, ok)
           /\ dataDeleteFragment(backend, db, order, s3, o, id, ok).res
                = dataDeleteFragment(backend, Missing(db, id),
                                     MissingOrder(order, id), s3, o, id,
                                     ok).res
           /\ \A d \in Payloads :
                dataWriteFragmentData(backend, db, order, s3, o, id, d, ok).res
                  = dataWriteFragmentData(backend, Missing(db, id),
                                          MissingOrder(order, id), s3, o, id,
                                          d, ok).res

\* C2: a metadata record that byId returns with size > 0 has a payload that
\* byIdData returns for the same owner and id, in every reachable state
C2_SizeImpliesBlob ==
  \A o \in Owners, id \in Ids :
    (byId(db, o, id) # NULL /\ byId(db, o, id).object.size > 0) =>
      byIdData(backend, db, s3, o, id, TRUE).kind = "buffer"

\* C3: when a save() of a fragment carrying payload d returns, the size of
\* the Fragment instance and the size byId then returns both equal len(d),
\* on either backend and whatever size the constructor was given
C3_SizeIsLength ==
  [][\A i \in Insts, ok \in S3Outcomes(backend) :
       (/\ SaveBlobStep(i, ok)
        /\ saveWrite(backend, db, order, s3, inst[i], ok).res.kind # "error")
       => /\ inst'[i].size = Len(inst[i].data.bytes)
          /\ byId(db', inst[i].ownerId, inst[i].id) # NULL
          /\ byId(db', inst[i].ownerId, inst[i].id).object.size
               = Len(inst[i].data.bytes)]_vars

\* C5: once Fragment.delete(ownerId, id) has returned true, byId and
\* byIdData answer not-found for that id ever after, whatever is called next
C5_DeletedIsTerminal ==
  \A p \in deleted :
    /\ byId(db, p[1], p[2]) = NULL
    /\ byIdData(backend, db, s3, p[1], p[2], TRUE) = NULL

\* C6: a writeFragmentData whose S3 request goes through, for an id with no
\* record or with another owner, throws 'Fragment not found' resp.
\* 'Fragment owner mismatch' and leaves MemoryDB and the bucket as they were
C6_CheckBeforeCommit ==
  [][\A o \in Owners, id \in Ids :
       (/\ last'.op = "writeFragmentData"
        /\ last'.ownerId = o
        /\ last'.id = id
        /\ last'.ok
        /\ readFragment(db, o, id) = NULL)
       => /\ last'.res = IF db[id] = NULL THEN Err("Fragment not found")
                         ELSE Err("Fragment owner mismatch")
          /\ UNCHANGED storeVars]_vars

\* C8: no backend call changes the stored owner of an id that has a record
C8_OwnerImmutable ==
  [][\A id \in Ids :
       (db[id] # NULL /\ db'[id] # NULL) =>
         db'[id].ownerId = db[id].ownerId]_vars

\* C10: listFragments with expand = false returns only id, created and
\* updated of each fragment; with expand = true the full records
C10_ExpandProjection ==
  \A o \in Owners :
    LET bare == dataListFragments(db, order, o, FALSE).items
        full == dataListFragments(db, order, o, TRUE).items
    IN  /\ \A k \in 1..Len(bare) :
             DOMAIN bare[k] = {"id", "created", "updated"}
        /\ full = getByOwner(db, order, o)

\* listFragments(ownerId) does not name id
Unlisted(d, ord, o, id) ==
  \A k \in 1..Len(listFragments(d, ord, o).items) :
    listFragments(d, ord, o).items[k].id # id

\* the step just taken is deleteFragment(o, id): every call overwrites last
IsDelete(call, o, id) ==
  /\ call.op = "deleteFragment"
  /\ call.ownerId = o
  /\ call.id = id

\* last is deleteFragment(o, id) that returned true
DeletedBy(call, o, id) ==
  /\ call.op = "deleteFragment"
  /\ call.ownerId = o
  /\ call.id = id
  /\ call.res = Bool(TRUE)

\* C4 as stated: deleteFragment returns false and changes nothing when id
\* has no record or another owner; otherwise it returns true with blob and
\* metadata both removed, and from then on byId is not-found and the
\* owner's listing does not contain id
C4_DeleteRemovesBoth ==
  [][\A o \in Owners, id \in Ids :
       /\ IsDelete(last', o, id) =>
            IF readFragment(db, o, id) = NULL
            THEN last'.res = Bool(FALSE) /\ UNCHANGED storeVars
            ELSE /\ last'.res = Bool(TRUE)
                 /\ db'[id] = NULL
                 /\ dataReadFragmentData(backend, db', s3', o, id, TRUE) = NULL
                 /\ readFragment(db', o, id) = NULL
                 /\ Unlisted(db', order', o, id)
       /\ DeletedBy(last, o, id) =>
            readFragment(db', o, id) = NULL /\ Unlisted(db', order', o, id)
     ]_vars

\* C4 (amended): deleteFragment returns false and changes nothing when id
\* has no record or another owner; otherwise it returns true with the
\* metadata removed, and the blob removed unless the blob delete of the
\* durable backend failed; byId is then not-found and the listing does not
\* contain id until a writeFragment for that id stores a record again
C4_DeleteRemovesMetadata ==
  [][\A o \in Owners, id \in Ids :
       /\ IsDelete(last', o, id) =>
            IF readFragment(db, o, id) = NULL
            THEN last'.res = Bool(FALSE) /\ UNCHANGED storeVars
            ELSE /\ last'.res = Bool(TRUE)
                 /\ db'[id] = NULL
                 /\ \/ backend = "aws" /\ ~last'.ok /\ s3' = s3
                    \/ dataReadFragmentData(backend, db', s3', o, id, TRUE)
                         = NULL
                 /\ readFragment(db', o, id) = NULL
                 /\ Unlisted(db', order', o, id)
       /\ (/\ db'[id] # db[id]
           /\ readFragment(db, o, id) = NULL
           /\ Unlisted(db, order, o, id)
           /\ ~(readFragment(db', o, id) = NULL /\ Unlisted(db', order', o, id)))
          => (last'.op = "writeFragment" /\ last'.id = id /\ last'.ownerId = o)
     ]_vars

\* the owner's delete returned true although the blob delete failed
C4_Witness ==
  /\ backend = "aws"
  /\ last.op = "deleteFragment"
  /\ last.res = Bool(TRUE)
  /\ ~last.ok
  /\ db[last.id] = NULL
  /\ s3[S3Key(last.ownerId, last.id)] # NULL

\* C7: after a save() of a fragment with payload d has returned, and until
\* the id is written or deleted again, byId returns the saved id, ownerId,
\* type, created and updated, and byIdData returns d
C7_RoundTrip ==
  \A id \in Ids :
    (saved[id] # NULL /\ saved[id].done) =>
      LET f == saved[id]
          r == byId(db, f.ownerId, id)
      IN  /\ r # NULL
          /\ r.object.id = f.id
          /\ r.object.ownerId = f.ownerId
          /\ r.object.type = f.type
          /\ r.object.created = f.created
          /\ r.object.updated = f.updated
          /\ byIdData(backend, db, s3, f.ownerId, id, TRUE) = Buf(f.data)

\* a saved fragment was loaded again through byId and its payload fetched
C7_Witness ==
  \E id \in Ids :
    /\ saved[id] # NULL
    /\ saved[id].done
    /\ saved[id].by = "a"
    /\ Live("b")
    /\ inst["b"].id = id
    /\ inst["b"].type = saved[id].type
    /\ inst["b"].updated = saved[id].updated
    /\ inst["b"].data = Buf(saved[id].data)

\* the records MemoryDB holds for an owner
OwnedBy(o) == {id \in Ids : db[id] # NULL /\ db[id].ownerId = o}

\* C9: listFragments(ownerId) returns exactly the records whose stored
\* owner is ownerId, each once, and nothing for an owner without records
C9_ListExactlyOwned ==
  \A o \in Owners :
    LET items == listFragments(db, order, o).items
    IN  /\ {items[k] : k \in 1..Len(items)}
             = {WithId(id, db[id]) : id \in OwnedBy(o)}
        /\ Len(items) = Cardinality(OwnedBy(o))
        /\ listFragmentsExpand(db, order, o, TRUE).items = items

\* a listing of one record was returned while another owner has a record
C9_Witness ==
  /\ last.op = "listFragments"
  /\ Len(last.res.items) = 1
  /\ last.res.items[1].ownerId = last.ownerId
  /\ \E id \in Ids : db[id] # NULL /\ db[id].ownerId # last.ownerId

\* the PUT just answered was by the owner of an existing fragment, with a
\* supported type and a non-empty Buffer
GoodPut(call, d) ==
  /\ call.op = "PUT"
  /\ readFragment(d, call.ownerId, call.id) # NULL
  /\ isSupportedType(call.header)
  /\ call.body.kind = "buffer"
  /\ Len(call.body.bytes) > 0

\* C11: a PUT with a supported type and a non-empty body on an owned
\* fragment answers 200 with the updated metadata, and afterwards byId
\* returns the new type and size = len(data) and byIdData the new data
C11_PutUpdates ==
  [][GoodPut(last', db) =>
       /\ last'.res.status = 200
       /\ last'.res.body.fragment.type = last'.header
       /\ last'.res.body.fragment.size = Len(last'.body.bytes)
       /\ byId(db', last'.ownerId, last'.id).object.type = last'.header
       /\ byId(db', last'.ownerId, last'.id).object.size
            = Len(last'.body.bytes)
       /\ byIdData(backend, db', s3', last'.ownerId, last'.id, TRUE)
            = last'.body]_vars

\* C12: setData with a value that is not a Buffer throws 'Data must be a
\* Buffer' and leaves the fragment's data, size and updated, and the backend,
\* as they were
C12_InvalidDataChangesNothing ==
  [][(last' # last /\ last'.op = "setData" /\ last'.data.kind # "buffer") =>
       /\ last'.res = Err("Data must be a Buffer")
       /\ \A i \in Insts :
            Live(i) => /\ inst'[i].data = inst[i].data
                       /\ inst'[i].size = inst[i].size
                       /\ inst'[i].updated = inst[i].updated
       /\ UNCHANGED storeVars]_vars

\* setData threw on a fragment that holds a payload and has a stored
\* record, updated before the clock moved on
C12_Witness ==
  /\ last.op = "setData"
  /\ last.res = Err("Data must be a Buffer")
  /\ Live(last.by)
  /\ inst[last.by].data # NULL
  /\ inst[last.by].size > 0
  /\ inst[last.by].updated < clock
  /\ db[inst[last.by].id] # NULL

\* the step starts the payload write of a save(): pc goes idle -> saving
StartsBlobWrite(i) ==
  /\ Live(i)
  /\ inst[i].pc = "idle"
  /\ inst'[i].pc = "saving"

\* the step that starts the payload write of a save() is the one in which
\* its metadata write completed, and it has written no payload yet
MetadataFirst(i) ==
  StartsBlobWrite(i) =>
    /\ readFragment(db', inst[i].ownerId, inst[i].id)
         = Obj(WithId(inst[i].id, fragmentData(inst[i])))
    /\ s3' = s3

\* what every step of a save() up to its metadata write shows: an idle
\* fragment, the clock and the ids as they were
SavesAlone(i) ==
  /\ Idle(i)
  /\ clock' = clock
  /\ issued' = issued
  /\ deleted' = deleted

\* C13 as stated: save() writes the metadata first and starts the payload
\* write only after that write completed, and the payload write is issued
\* if and only if the data is present and non-empty
C13_BlobIffNonEmpty ==
  [][\A i \in Insts :
       /\ MetadataFirst(i)
       /\ (SavesAlone(i) /\ SaveMeta(i)) =>
            (StartsBlobWrite(i) <=>
               (inst[i].data # NULL /\ Len(inst[i].data.bytes) > 0))]_vars

\* C13 (amended): save() writes the metadata first and starts the payload
\* write only after that write completed, and the payload write is issued
\* if and only if the data is present, an empty Buffer included
C13_BlobIffData ==
  [][\A i \in Insts :
       /\ MetadataFirst(i)
       /\ (SavesAlone(i) /\ SaveMeta(i)) =>
            (StartsBlobWrite(i) <=> inst[i].data # NULL)]_vars

\* a save() of an empty Buffer has written its metadata and is about to
\* write the payload
C13_Witness ==
  \E i \in Insts :
    /\ Live(i)
    /\ inst[i].pc = "saving"
    /\ inst[i].data = Buf(<<>>)
    /\ readFragment(db, inst[i].ownerId, inst[i].id)
         = Obj(WithId(inst[i].id, fragmentData(inst[i])))

\* getData() on a fragment that holds a payload returns it without a
\* backend read, whatever the backend holds or answers; on a fragment that
\* holds none it makes one read, returns what the read returned and keeps it
\* only if it is a payload
LazyRead(f) ==
  \A ok \in BOOLEAN :
    LET g == getData(backend, db, s3, f, ok)
    IN  IF f.data # NULL
        THEN g = [res |-> f.data, f |-> f, reads |-> <<>>]
        ELSE /\ g.reads = <<S3Key(f.ownerId, f.id)>>
             /\ g.res = dataReadFragmentData(backend, db, s3, f.ownerId,
                                              f.id, ok)
             /\ g.f = IF g.res.kind = "buffer"
                      THEN [f EXCEPT !.data = g.res] ELSE f

\* C14: getData() reads the backend if and only if the instance holds no
\* payload; a payload that a read returned stays and is what later calls
\* return, without a read, until setData replaces it; a read that returned
\* nothing is not kept; a getData() on one instance changes no other
C14_LazyCache ==
  /\ [](\A i \in Insts : Idle(i) => LazyRead(inst[i]))
  /\ [][\A i \in Insts :
         /\ (Live(i) /\ inst[i].data # NULL) =>
              \/ inst'[i].data = inst[i].data
              \/ \E d \in SetDataArgs : SetData(i, d)
         /\ (inst' # inst /\ storeVars' = storeVars /\ GetData(i))
              => \A j \in Insts \ {i} : inst'[j] = inst[j]]_vars

\* the two instances of one fragment hold different payloads: the one
\* loaded through byId keeps its own while the backend answers with the
\* other's
C14_Witness ==
  /\ Idle("a") /\ Idle("b")
  /\ inst["a"].id = inst["b"].id
  /\ inst["a"].data # NULL
  /\ inst["b"].data # NULL
  /\ inst["b"].data # inst["a"].data
  /\ inst["b"].updated < inst["a"].updated
  /\ dataReadFragmentData(backend, db, s3, inst["b"].ownerId, inst["b"].id,
                          TRUE) = inst["a"].data

\* C15: creating a fragment with a type outside the allow-list fails with
\* UnsupportedType and produces no fragment, so every Fragment there is has
\* an allow-listed type
C15_OnlySupportedTypes ==
  \A i \in Insts : Live(i) => isSupportedType(inst[i].type)

\* C16: created is set once and never changes, in the instance, in the
\* stored record and across a reload through byId; setData on a Buffer
\* refreshes updated to the current time; updated >= created in every
\* reachable state
C16_Timestamps ==
  /\ [](/\ \A i \in Insts : Live(i) => inst[i].updated >= inst[i].created
        /\ \A id \in Ids : db[id] # NULL => db[id].updated >= db[id].created
        /\ \A i, j \in Insts :
             (Live(i) /\ Live(j) /\ inst[i].id = inst[j].id)
               => inst[i].created = inst[j].created
        /\ \A i \in Insts :
             (Live(i) /\ db[inst[i].id] # NULL)
               => db[inst[i].id].created = inst[i].created)
  /\ [][\A i \in Insts :
         /\ Live(i) => inst'[i].created = inst[i].created
         /\ \A id \in Ids :
              (db[id] # NULL /\ db'[id] # NULL)
                => db'[id].created = db[id].created
         /\ (Idle(i) /\ inst'[i] # inst[i]) =>
              \A d \in Payloads :
                SetData(i, Buf(d)) =>
                  /\ inst'[i].updated = clock
                  /\ inst'[i].updated >= inst[i].updated]_vars

\* a fragment whose data was replaced after the clock moved on was saved
\* and loaded again through byId
C16_Witness ==
  /\ Live("a") /\ Live("b")
  /\ inst["b"].id = inst["a"].id
  /\ inst["b"].data = NULL
  /\ inst["b"].updated > inst["b"].created
  /\ db[inst["b"].id] # NULL
  /\ db[inst["b"].id].updated = inst["b"].updated
  /\ "data" \in DOMAIN db[inst["b"].id] \/ s3[S3Key(inst["b"].ownerId, inst["b"].id)] # NULL

\* the two families of the conversion engine
TextFamily ==
  {"text/plain", "text/html", "text/css", "text/javascript", "text/markdown",
   "application/json"}
ImageFamily ==
  {"image/png", "image/jpeg", "image/webp", "image/avif", "image/gif"}
SameFamily(a, b) ==
  \/ a \in TextFamily /\ b \in TextFamily
  \/ a \in ImageFamily /\ b \in ImageFamily

\* C17: canConvert(from, to) is true if and only if from = to or both types
\* are in the same family; so it is true for (t, t) and false for every
\* pair from different families
C17_CanConvertIffSameFamily ==
  last.op = "canConvert" =>
    /\ last.res = Bool(last.fromType = last.toType
                         \/ SameFamily(last.fromType, last.toType))
    /\ (last.fromType \in TextFamily /\ last.toType \in ImageFamily)
         => last.res = Bool(FALSE)
    /\ (last.fromType \in ImageFamily /\ last.toType \in TextFamily)
         => last.res = Bool(FALSE)

\* canConvert was asked about a type outside both families against itself
C17_Witness ==
  /\ last.op = "canConvert"
  /\ last.fromType = "text/xml"
  /\ last.toType = "text/xml"
  /\ last.res = Bool(TRUE)

\* the message names the type
Names(err, type) == \E k \in 1..Len(err.text) : err.text[k] = type

\* C18: when canConvert(fromType, toType) is false, convert fails with the
\* 'Conversion from X to Y is not supported' error naming both types, and
\* neither the text routine nor the image codec is invoked
C18_UnsupportedFailsFirst ==
  (last.op = "convert" /\ ~canConvert(last.fromType, last.toType)) =>
    /\ last.res = TypeError2("Conversion from ", last.fromType, last.toType,
                              " is not supported")
    /\ Names(last.res, last.fromType)
    /\ Names(last.res, last.toType)
    /\ last.calls = <<>>

\* a text was to be converted into an image type
C18_Witness ==
  /\ last.op = "convert"
  /\ last.fromType = "text/plain"
  /\ last.toType = "image/png"
  /\ last.res.kind = "error"

\* C19: for every type t of the allow-list or of the image family and every
\* payload d, convert(d, t, t) returns d and does not invoke the image codec
C19_IdentityConversion ==
  (/\ last.op = "convert"
   /\ last.fromType = last.toType
   /\ last.fromType \in supportedTypes \cup ImageFamily)
  => /\ last.res = last.data
     /\ \A k \in 1..Len(last.calls) : last.calls[k] # "sharp"

\* C20 as stated: there is an ordered pair of distinct text-family types
\* for which canConvert is true and convert fails with the 'Unsupported
\* text conversion from X to Y' error (looked at once convert has been called)
C20_TableIsPartial ==
  last.op = "convert" =>
    \E f \in TextFamily, t \in TextFamily :
      /\ f # t
      /\ canConvert(f, t)
      /\ \E d \in Texts :
           convert(Buf(d), f, t, TRUE).res
             = TypeError2("Unsupported text conversion from ", f, t, "")

\* C20 (amended): for every ordered pair of distinct text-family types
\* canConvert is true and convert returns a Buffer from the text routine;
\* the 'Unsupported text conversion' error does not occur
C20_TableIsTotal ==
  (/\ last.op = "convert"
   /\ last.fromType \in TextFamily
   /\ last.toType \in TextFamily
   /\ last.fromType # last.toType)
  => /\ canConvert(last.fromType, last.toType)
     /\ last.res.kind = "buffer"
     /\ last.calls = <<"convertText">>

\* a JSON text was converted into a JavaScript source
C20_Witness ==
  /\ last.op = "convert"
  /\ last.fromType = "application/json"
  /\ last.toType = "text/javascript"
  /\ last.data = Buf(<<"1">>)
  /\ last.res = Buf(<<"const data = ", "1", ";">>)

\* the type token of a type string: what stands before the parameter
TypeToken(type) ==
  IF \E t \in MimeTypes : type = WithParameter(t)
  THEN CHOOSE t \in MimeTypes : type = WithParameter(t)
  ELSE type

\* C21: isSupportedType(type) is true exactly when the type token before any
\* parameter suffix is in the allow-list, so a supported type with a charset
\* parameter is accepted and everything else, the empty string and the image
\* types included, is rejected
C21_SupportedIffToken ==
  last.op = "isSupportedType" =>
    last.res = Bool(TypeToken(last.type) \in supportedTypes)

\* the response the request of a call would get if its id had no record
AnswerIfMissing(call, d, ord) ==
  LET gone == Missing(d, call.id)
      goneOrder == MissingOrder(ord, call.id)
  IN  CASE call.op = "GET" ->
             getByIdHandler(backend, gone, s3, call.ownerId,
                            Param(call.id, call.ext), call.ok, TRUE).res
        [] call.op = "GET info" -> getInfoHandler(gone, call.ownerId, call.id)
        [] call.op = "PUT" ->
             putHandler(backend, gone, goneOrder, s3, call.ownerId, call.id,
                        call.header, call.body).res
        [] call.op = "DELETE" ->
             deleteHandler(backend, gone, goneOrder, s3, call.ownerId,
                           call.id, call.ok).res

\* C22: GET /fragments/:id, GET /fragments/:id/info, PUT and DELETE answer
\* an authenticated request for an id owned by another user with 404
\* 'Fragment not found', the response a request for an id without a record
\* gets, whatever its content type, body or extension, and change nothing
\* that is stored
C22_NonOwnerIsNotFound ==
  [][(/\ last' # last
      /\ last'.op \in {"GET", "GET info", "PUT", "DELETE"}
      /\ db[last'.id] # NULL
      /\ db[last'.id].ownerId # last'.ownerId)
     => /\ last'.res = Response(404, createErrorResponse(404,
                                  "Fragment not found"))
        /\ last'.res = AnswerIfMissing(last', db, order)
        /\ UNCHANGED storeVars]_vars

\* a PUT without a Content-Type header on another user's fragment was
\* answered 404 and the fragment is still there
C22_Witness ==
  /\ last.op = "PUT"
  /\ last.header = ""
  /\ db[last.id] # NULL
  /\ db[last.id].ownerId # last.ownerId
  /\ last.res.status = 404

\* the extension table: the lower-case extensions and their types
ExtensionTable ==
  {<<".txt", "text/plain">>, <<".html", "text/html">>, <<".css", "text/css">>,
   <<".js", "text/javascript">>, <<".md", "text/markdown">>,
   <<".json", "application/json">>, <<".png", "image/png">>,
   <<".jpg", "image/jpeg">>, <<".jpeg", "image/jpeg">>,
   <<".webp", "image/webp">>, <<".avif", "image/avif">>,
   <<".gif", "image/gif">>}
\* the extensions of the requests that differ from a table entry in case only
CaseFolded == {<<".HTML", ".html">>, <<".Png", ".png">>}
Fold(ext) ==
  IF \E p \in CaseFolded : p[1] = ext
  THEN (CHOOSE p \in CaseFolded : p[1] = ext)[2] ELSE ext
InTable(ext) == \E p \in ExtensionTable : p[1] = Fold(ext)
TableType(ext) == (CHOOSE p \in ExtensionTable : p[1] = Fold(ext))[2]

\* what C23 says of a GET under an extension by the owner of a fragment
\* whose payload the backend returned
ReadsUnderExtension(call, d, s) ==
  LET f == byId(d, call.ownerId, call.id).object
      data == dataReadFragmentData(backend, d, s, call.ownerId, call.id,
                                   call.ok)
  IN  IF ~InTable(call.ext)
      THEN /\ call.res.status = 415
           /\ call.res.body.message = "Unknown file extension: " \o call.ext
           /\ call.calls = <<>>
      ELSE IF TableType(call.ext) = f.type
      THEN /\ call.res = Send(f.type, data)
           /\ call.calls = <<>>
      ELSE IF ~SameFamily(f.type, TableType(call.ext))
      THEN /\ call.res.status = 415
           /\ call.res.body.message
                = "Conversion from " \o f.type \o " to "
                    \o TableType(call.ext) \o " is not supported"
           /\ call.calls = <<>>
      ELSE /\ call.res.status = 200
           /\ call.res.contentType = TableType(call.ext)
           /\ call.res.body.kind = "buffer"
           /\ call.res.body
                = convert(data, f.type, TableType(call.ext), TRUE).res
           /\ (f.type = "text/markdown" /\ TableType(call.ext) = "text/html")
                => call.res.body = Buf(mdRender(data.bytes))

\* C23: a GET of an owned fragment of type t under an extension fails as
\* unsupported when the extension is not in the table (compared without
\* regard to case), returns the original bytes unconverted when it maps to
\* t, fails with 'Conversion from t to u is not supported' without invoking
\* the converter when it maps to a type u outside the family of t, and
\* otherwise returns the converted bytes under the target type
C23_ReadUnderExtension ==
  [][(/\ last' # last
      /\ last'.op = "GET"
      /\ last'.ext # ""
      /\ byId(db, last'.ownerId, last'.id) # NULL
      /\ dataReadFragmentData(backend, db, s3, last'.ownerId, last'.id,
                              last'.ok).kind = "buffer")
     => ReadsUnderExtension(last', db, s3)]_vars

\* a Markdown fragment was read as .HTML and came back rendered
C23_Witness ==
  /\ last.op = "GET"
  /\ last.ext = ".HTML"
  /\ db[last.id] # NULL
  /\ db[last.id].type = "text/markdown"
  /\ last.res = Send("text/html", Buf(<<"<p>", "a", "</p>", "\n">>))
  /\ last.calls = <<"convert", "convertText">>

\* the step starts the call in slot t
Starts(t, op) ==
  /\ tasks[t].pc = "done"
  /\ tasks'[t].pc # "done"
  /\ tasks'[t].op = op
\* the step is the one in which the S3 request of the call in slot t ends
Completes(t, op) ==
  /\ tasks[t].op = op
  /\ tasks[t].pc = "io"
  /\ tasks'[t].pc = "done"

\* C24: deleteFragment of the durable backend on an owned existing record
\* attempts the blob delete first, with the metadata record untouched until
\* the attempt has ended, and then deletes the metadata record; when the
\* blob delete fails nothing is raised, the blob stays, the metadata record
\* is deleted all the same and the call returns true
C24_BlobThenMetadata ==
  [][\A t \in Tasks :
       /\ (/\ Starts(t, "delete")
           /\ backend = "aws"
           /\ readFragment(db, tasks'[t].ownerId, tasks'[t].id) # NULL)
          => /\ tasks'[t].pc = "io"
             /\ UNCHANGED storeVars
       /\ (Completes(t, "delete") /\ db[tasks[t].id] # NULL)
          => /\ tasks'[t].res = Bool(TRUE)
             /\ db'[tasks[t].id] = NULL
             /\ tasks'[t].sent[2] = "MemoryDB.delete"
             /\ IF tasks'[t].sent[1] = "DeleteObject failed"
                THEN s3' = s3
                ELSE s3' = [s3 EXCEPT
                              ![S3Key(tasks[t].ownerId, tasks[t].id)] = NULL]
     ]_vars

\* a delete whose blob delete failed has returned true: the record is gone,
\* the blob is still in the bucket
C24_Witness ==
  \E t \in Tasks :
    /\ tasks[t].op = "delete"
    /\ tasks[t].pc = "done"
    /\ tasks[t].sent = <<"DeleteObject failed", "MemoryDB.delete">>
    /\ tasks[t].res = Bool(TRUE)
    /\ db[tasks[t].id] = NULL
    /\ s3[S3Key(tasks[t].ownerId, tasks[t].id)] # NULL

\* the step is the one in which the call in slot t returns or throws
Finishes(t, op) ==
  /\ tasks[t].op = op
  /\ tasks[t].pc # "done"
  /\ tasks'[t].pc = "done"
\* a save() that carried data and has returned without an error
SavedData(task) ==
  /\ task.op = "save"
  /\ task.pc = "done"
  /\ task.res.kind # "error"
  /\ task.data # NULL

\* C25: when two save() calls for one fragment id that both carry data have
\* both returned, the stored type, size, updated and data are those of the
\* call that returned last, never one call's metadata with the other's data
C25_LastWriterWins ==
  [][\A t \in Tasks : \A u \in Tasks \ {t} :
       (/\ Finishes(t, "save")
        /\ SavedData(tasks'[t])
        /\ SavedData(tasks[u])
        /\ tasks[u].id = tasks[t].id
        /\ readFragment(db', tasks[t].ownerId, tasks[t].id) # NULL)
       => LET stored == readFragment(db', tasks[t].ownerId,
                                     tasks[t].id).object
              mine == tasks'[t]
          IN  /\ stored.type = mine.meta.type
              /\ stored.size = mine.meta.size
              /\ stored.updated = mine.meta.updated
              /\ dataReadFragmentData(backend, db', s3', mine.ownerId,
                                      mine.id, TRUE) = mine.data]_vars

\* every call has returned
AllSettled == \A t \in Tasks : Settled(t)
\* both a save() and a delete of the id were among the calls
SaveAndDelete(id) ==
  \E t \in Tasks : \E u \in Tasks \ {t} :
    /\ tasks[t].op = "save" /\ tasks[t].id = id
    /\ tasks[u].op \in {"delete", "DELETE"} /\ tasks[u].id = id

\* C26: when no store operation has failed and a save() and a delete of one
\* (ownerId, id) have both returned, however they interleaved, a blob is
\* read for the id only if a metadata record is
C26_NoBlobWithoutMetadata ==
  \A o \in Owners, id \in Ids :
    (AllSettled /\ ~faulted /\ SaveAndDelete(id)) =>
      (dataReadFragmentData(backend, db, s3, o, id, TRUE) # NULL
         => readFragment(db, o, id) # NULL)

\* the two slots hold DELETE requests of one user for one id that both
\* found the fragment, and both have been answered
BothDeleted(t, u) ==
  /\ AllSettled
  /\ tasks[t].op = "DELETE"
  /\ tasks[u].op = "DELETE"
  /\ tasks[t].id = tasks[u].id
  /\ tasks[t].ownerId = tasks[u].ownerId
  /\ tasks[t].fragment # NULL
  /\ tasks[u].fragment # NULL

\* C30: of the DELETE requests of the owner for one existing fragment that
\* overlap, with no store operation failing, exactly one is answered 200
\* and every other 404; none is answered 500
C30_OneDeleteWins ==
  \A t \in Tasks : \A u \in Tasks \ {t} :
    (BothDeleted(t, u) /\ ~faulted) =>
      {tasks[t].res.status, tasks[u].res.status} = {200, 404}

\* C27: a writeFragment for an id and owner whose readFragmentData returned
\* bytes before the call leaves readFragmentData returning the same bytes,
\* on either backend
C27_MetadataWriteKeepsBlob ==
  [][last'.op = "writeFragment" =>
       LET o == last'.ownerId
           id == last'.id
           before == dataReadFragmentData(backend, db, s3, o, id, TRUE)
       IN  before # NULL =>
             dataReadFragmentData(backend, db', s3', o, id, TRUE) = before]_vars

\* the ids of the listing a byUser call got, in listing order
Listed(task) == [i \in 1..Len(task.list) |-> task.list[i].id]
Failed(task) == \E i \in 1..Len(task.answers) : task.answers[i].kind = "error"

\* C28: byUser(ownerId, true) reads the payloads of the listed fragments in
\* listing order, at most one read per fragment and the next only after the
\* answer to the one before; when it returns every listed fragment has been
\* read once and carries the answer to its read; when a read fails the call
\* throws that error after it, with no read issued after the failed one
C28_SequentialReads ==
  \A t \in Tasks :
    (tasks[t].op = "byUser" /\ tasks[t].expand) =>
      LET task == tasks[t]
          n == Len(task.reads)
          m == Len(task.answers)
      IN  /\ n <= Len(task.list)
          /\ task.reads = SubSeq(Listed(task), 1, n)
          /\ m \in {n - 1, n} \cap Nat
          /\ \A i \in 1..m : i < m => task.answers[i].kind # "error"
          /\ task.pc = "done" =>
               IF Failed(task)
               THEN m = n /\ task.res = task.answers[m]
               ELSE /\ n = Len(task.list)
                    /\ m = n
                    /\ task.res.kind = "array"
                    /\ Len(task.res.items) = n
                    /\ \A i \in 1..n :
                         /\ task.res.items[i].id = task.reads[i]
                         /\ task.res.items[i].data = task.answers[i]

\* an expanded listing of two fragments has returned with a payload attached
\* to each
C28_Witness ==
  /\ tasks["t1"].op = "byUser"
  /\ tasks["t1"].expand
  /\ tasks["t1"].pc = "done"
  /\ Len(tasks["t1"].list) = 2
  /\ Len(tasks["t1"].reads) = 2
  /\ tasks["t1"].res.kind = "array"
  /\ \A i \in 1..2 : tasks["t1"].res.items[i].data.kind = "buffer"

\* the metadata of a record a backend returned: id, ownerId, type, size,
\* created, updated
MetadataOf(f) ==
  [id |-> f.id, ownerId |-> f.ownerId, type |-> f.type, size |-> f.size,
   created |-> f.created, updated |-> f.updated]

\* what a call answered, as far as the contract goes: the metadata of a
\* returned record or of each listed record, anything else as it is
Answered(r) ==
  IF r.kind = "object" THEN Obj(MetadataOf(r.object))
  ELSE IF r.kind = "array"
       THEN Arr([i \in 1..Len(r.items) |-> MetadataOf(r.items[i])])
  ELSE r

\* C29: after any sequence of writeFragment, writeFragmentData and
\* deleteFragment calls in which no S3 request fails, the two backend
\* modules have returned the same result or error to the last call and give
\* the same answer to every readFragment (size included), readFragmentData
\* and listFragments
C29_BackendsAgree ==
  last.op \in {"writeFragment", "writeFragmentData", "deleteFragment"} =>
    /\ Answered(last.res) = Answered(twin.res)
    /\ \A o \in Owners :
         /\ Answered(listFragments(db, order, o))
              = Answered(listFragments(twin.db, twin.order, o))
         /\ \A id \in Ids :
              /\ Answered(readFragment(db, o, id))
                   = Answered(readFragment(twin.db, o, id))
              /\ dataReadFragmentData(backend, db, s3, o, id, TRUE)
                   = dataReadFragmentData(Other(backend), twin.db, twin.s3,
                                          o, id, TRUE)

====
